---- MODULE Spec2Model ----
(***************************************************************************)
(* A model of the front end of nickk-dv/lang: the string intern pool       *)
(* (src/src/ast/intern.rs), the HIR builder's scope tables                 *)
(* (src/rock_core/src/hir_lower/hir_build.rs), the scope passes of         *)
(* src/src/check/check.rs (module discovery, import resolution, the main   *)
(* procedure check and the locals of the type checker), the lowering       *)
(* passes of src/rock_core/src/hir_lower (pass_3.rs, pass_5.rs), the arena *)
(* (src/src/mem/arena.rs), the lexer (src/src/ast/lexer2.rs) and the item  *)
(* loop of the parser (src/rock_core/src/ast_parse/grammar.rs).            *)
(*                                                                         *)
(* Each subsystem has its own specification over its own variables; the    *)
(* variables of the other subsystems stay at their idle values.            *)
(***************************************************************************)
EXTENDS Integers, Sequences, FiniteSets, TLC

VARIABLES
    \* ---- InternPool (intern.rs:6-11) ----
    bytes,        \* InternPool.bytes: the single growing byte buffer
    strings,      \* InternPool.strings: sequence of [start, end]
    intern_map,   \* InternPool.intern_map: hash -> InternID
    next,         \* InternPool.next
    returned,     \* history: the set of <<string, InternID>> intern has returned
    \* ---- HirData (hir_build.rs:11-30) ----
    scopes,       \* HirData.scopes: sequence of [parent, symbols]
    mods,         \* HirData.mods: sequence of ModData
    ast_items,    \* HirData.ast_procs .. ast_globals: item kind -> sequence of AST items
    hir_items,    \* HirData.procs .. globals: item kind -> sequence of HIR data
    hir_scopes,   \* HirData.hir_scopes: sequence of hir::ScopeData
    hirCalls,     \* number of HirData::add_* calls made
    \* ---- check (check.rs): Ast, Context and the locals of the passes ----
    ast,          \* Ast.modules: file path -> decls (the root path may be absent)
    ctx_scopes,   \* Context.scopes
    ctx_modules,  \* Context.modules: sequence of ModuleData
    ctx_items,    \* Context.procs, globals, ...: item kind -> sequence of item data
    module_map,   \* pass_0 module_map: path -> Ok(module) | Err(claimant)
    tasks,        \* pass_0 tasks: stack of ScopeTreeTask
    pc,           \* position in check()
    scope_id,     \* pass_2: the scope whose imports are processed
    import_tasks, \* pass_2 import_tasks
    progress,     \* pass_2 progress
    iterations,   \* history: iterations the fixpoint loop of scope_id has made
    reports,      \* the diagnostics written by report / report_no_src, in order
    mod_log,      \* history: one entry per Decl::Mod that pass_0 handled
    sym_log,      \* history: one entry per symbol of an import that pass_2 handled
    \* ---- hir_lower (mod.rs, hir_build.rs HirEmit, pass_3.rs, pass_5.rs) ----
    lower_ast,    \* the input of hir_lower::check: the items of the module
    lpc,          \* position in hir_lower::check
    errors,       \* HirEmit.errors: the diagnostics recorded, in order
    emitted,      \* the Result returned by HirEmit::emit, None before it
    passes_run,   \* history: the passes run so far, in order
    \* ---- functions called once (type_matches, path_resolve_target_scope, pass_3 name lists) ----
    fn_args,      \* the arguments of the call, None before it
    fn_result,    \* the value the call returned, None before it
    \* ---- ProcScope of pass_3_typecheck (check.rs:561-598, 1053-1096) ----
    proc_scope,   \* TypeCtx.proc_scope: [locals, stack_frames]
    ps_walk,      \* position of pass_3_typecheck in the procedures of one scope
    \* ---- Arena (src/src/mem/arena.rs:4-9) ----
    arena,        \* None before Arena::new, then [offset, size, blocks, node]
    allocs,       \* history: the allocations returned, in order
    \* ---- Parser in grammar::module (ast_parse/grammar.rs:39-68) ----
    parser,       \* None before the call, then [tokens, cursor, items]
    module_result, \* the Result returned by module, None before it returns
    \* ---- Lexer (src/src/ast/lexer2.rs:5-10) ----
    lexer,        \* None before Lexer::new, then [str, chars, span_start, span_end, tokens]
    lex_result    \* the TokenList returned by lex, None before it returns

internVars == <<bytes, strings, intern_map, next, returned>>
hirVars == <<scopes, mods, ast_items, hir_items, hir_scopes, hirCalls>>
checkVars == <<ast, ctx_scopes, ctx_modules, ctx_items, module_map, tasks, pc, scope_id,
               import_tasks, progress, iterations, reports, mod_log, sym_log>>

lowerVars == <<lower_ast, lpc, errors, emitted, passes_run>>

fnVars == <<fn_args, fn_result>>

scopeVars == <<proc_scope, ps_walk>>

\* the variables of the subsystems modelled after hir_lower
arenaVars == <<arena, allocs>>

parseVars == <<parser, module_result>>

lexVars == <<lexer, lex_result>>

moreVars == <<fnVars, scopeVars, arenaVars, parseVars, lexVars>>

\* what an action of one of these subsystems leaves alone
notFn == <<internVars, hirVars, checkVars, lowerVars, scopeVars, arenaVars, parseVars, lexVars>>
notScope == <<internVars, hirVars, checkVars, lowerVars, fnVars, arenaVars, parseVars, lexVars>>
notArena == <<internVars, hirVars, checkVars, lowerVars, fnVars, scopeVars, parseVars, lexVars>>
notParse == <<internVars, hirVars, checkVars, lowerVars, fnVars, scopeVars, arenaVars, lexVars>>
notLex == <<internVars, hirVars, checkVars, lowerVars, fnVars, scopeVars, arenaVars, parseVars>>

vars == <<internVars, hirVars, checkVars, lowerVars, moreVars>>

\* Option<T>: None is the empty sequence and Some(x) the sequence of x
None == <<>>
Some(x) == <<x>>

\* ------------------------------------------------------------------------
\* Bounds
\* ------------------------------------------------------------------------

\* number of entries one pool may store
MaxInterns == 5

\* number of scopes added to one HirData
MaxScopes == 2

\* number of HirData::add_* and scope_add_imported calls explored
MaxHirCalls == 2

\* number of declarations of the root module in the module layouts explored
MaxRootDecls == 2

\* number of import statements of one scope in the import programs explored
MaxImports == 2

\* ------------------------------------------------------------------------
\* 32-bit arithmetic.  A u32 is kept as <<hi, lo>>, two 16-bit halves, so
\* that wrapping multiplication stays inside the checker's integers.
\* ------------------------------------------------------------------------

Half == 256 * 256

RECURSIVE Xor(_, _)
Xor(a, b) ==
    IF a = 0 THEN b
    ELSE IF b = 0 THEN a
    ELSE (((a % 2) + (b % 2)) % 2) + 2 * Xor(a \div 2, b \div 2)

\* (hash << 5).wrapping_add(hash), i.e. hash * 33 mod 2^32
Times33(h) ==
    LET lo33 == h[2] * 33
        hi33 == h[1] * 33 + (lo33 \div Half)
    IN  <<hi33 % Half, lo33 % Half>>

\* hash ^ c as u32
XorChar(h, c) == <<Xor(h[1], c \div Half), Xor(h[2], c % Half)>>

\* ------------------------------------------------------------------------
\* The strings interned.  "ap" and "g6" have the same djb2 hash
\* (0x00596E34); "a" and the empty string are unrelated to them.
\* ------------------------------------------------------------------------

Str_ap == <<97, 112>>
Str_g6 == <<103, 54>>
Str_a  == <<97>>
Strings == {Str_ap, Str_g6, Str_a, <<>>}

\* InternPool::hash_djb2
RECURSIVE djb2_from(_, _)
djb2_from(hash, string) ==
    IF string = <<>> THEN hash
    ELSE djb2_from(XorChar(Times33(hash), Head(string)), Tail(string))

hash_djb2(string) == djb2_from(<<0, 5381>>, string)

\* InternPool::get_str: the bytes of entry `id` (ids are 0-based)
get_str(id) ==
    LET is == strings[id + 1]
    IN  SubSeq(bytes, is.start + 1, is.end)

string_compare_always(id, string) == TRUE

\* InternPool::string_compare
string_compare(id, string) == string = get_str(id)

InternString_at_zero(string) == [start |-> 0, end |-> Len(string)]

\* the InternString pushed by intern for a new string
InternString(string) ==
    [start |-> Len(bytes), end |-> Len(bytes) + Len(string)]

\* no pure function called
FnIdle ==
    /\ fn_args = None
    /\ fn_result = None

\* ProcScope::new (check.rs:1054-1059) and no procedure visited
ProcScope_new == [locals |-> <<>>, stack_frames |-> <<>>]

WalkIdle == [proc |-> 0, open |-> <<>>, blocks |-> 0]

ScopeIdle ==
    /\ proc_scope = ProcScope_new
    /\ ps_walk = WalkIdle

\* the subsystems modelled after hir_lower not in use
\* no arena made
ArenaIdle ==
    /\ arena = None
    /\ allocs = <<>>

\* no module parsed
ParseIdle ==
    /\ parser = None
    /\ module_result = None

\* no lexer made
LexIdle ==
    /\ lexer = None
    /\ lex_result = None

MoreIdle ==
    /\ FnIdle
    /\ ScopeIdle
    /\ ArenaIdle
    /\ ParseIdle
    /\ LexIdle

\* hir_lower::check not run
LowerIdle ==
    /\ lower_ast = <<>>
    /\ lpc = "idle"
    /\ errors = <<>>
    /\ emitted = None
    /\ passes_run = <<>>

\* check() not run
CheckIdle ==
    /\ ast = <<>>
    /\ ctx_scopes = <<>>
    /\ ctx_modules = <<>>
    /\ ctx_items = <<>>
    /\ module_map = <<>>
    /\ tasks = <<>>
    /\ pc = "idle"
    /\ scope_id = 0
    /\ import_tasks = <<>>
    /\ progress = 0
    /\ iterations = 0
    /\ reports = <<>>
    /\ mod_log = <<>>
    /\ sym_log = <<>>

\* HirData untouched
HirIdle ==
    /\ scopes = <<>>
    /\ mods = <<>>
    /\ ast_items = <<>>
    /\ hir_items = <<>>
    /\ hir_scopes = <<>>
    /\ hirCalls = 0

\* InternPool::new
InternInit ==
    /\ HirIdle
    /\ CheckIdle
    /\ LowerIdle
    /\ MoreIdle
    /\ bytes = <<>>
    /\ strings = <<>>
    /\ intern_map = <<>>
    /\ next = 0
    /\ returned = {}

\* InternPool::intern
intern(string) ==
    LET hash == hash_djb2(string)
        hit  == hash \in DOMAIN intern_map /\ string_compare(intern_map[hash], string)
    IN  /\ hit \/ Len(strings) < MaxInterns
        /\ IF hit
           THEN /\ returned' = returned \cup {<<string, intern_map[hash]>>}
                /\ UNCHANGED <<bytes, strings, intern_map, next>>
           ELSE /\ bytes' = bytes \o string
                /\ strings' = Append(strings, InternString(string))
                /\ intern_map' = [h \in DOMAIN intern_map \cup {hash} |->
                                    IF h = hash THEN next ELSE intern_map[h]]
                /\ next' = next + 1
                /\ returned' = returned \cup {<<string, next>>}
        /\ UNCHANGED <<hirVars, checkVars, lowerVars, moreVars>>

InternNext == \E string \in Strings : intern(string)

SpecIntern == InternInit /\ [][InternNext]_vars

\* ------------------------------------------------------------------------
\* HirData: scopes, symbols and item tables (hir_build.rs).  Source ranges
\* (use_range, name.range) are payload no operation branches on and are
\* left out; names are InternIDs.
\* ------------------------------------------------------------------------

\* the InternIDs used as item names
Names == {0, 1}

\* SymbolKind variants that index an item table
ItemKinds == {"Proc", "Enum", "Union", "Struct", "Const", "Global"}

\* ast::PathKind
PathKinds == {"None", "Super", "Package"}

\* Symbol::Defined { kind }
Defined(k, id) == [tag |-> "Defined", kind |-> k, id |-> id]

\* Symbol::Imported { kind, use_range }
Imported(k, id) == [tag |-> "Imported", kind |-> k, id |-> id]

\* the pool not in use
InternIdle ==
    /\ bytes = <<>>
    /\ strings = <<>>
    /\ intern_map = <<>>
    /\ next = 0
    /\ returned = {}

\* HirData::new
HirInit ==
    /\ InternIdle
    /\ CheckIdle
    /\ LowerIdle
    /\ MoreIdle
    /\ scopes = <<>>
    /\ mods = <<>>
    /\ ast_items = [k \in ItemKinds |-> <<>>]
    /\ hir_items = [k \in ItemKinds |-> <<>>]
    /\ hir_scopes = <<>>
    /\ hirCalls = 0

\* ScopeIDs of the scopes that exist (0-based)
ScopeIDs == 0 .. Len(scopes) - 1

\* HashMap::insert on a scope's symbols
MapInsert(symbols, id, symbol) ==
    [n \in DOMAIN symbols \cup {id} |-> IF n = id THEN symbol ELSE symbols[n]]

\* HirData::scope_add_symbol: the scopes after the insertion
scope_add_symbol(origin_id, id, symbol) ==
    [scopes EXCEPT ![origin_id + 1].symbols = MapInsert(@, id, symbol)]

\* HirData::add_scope
add_scope(parent) ==
    /\ Len(scopes) < MaxScopes
    /\ scopes' = Append(scopes, [parent |-> parent, symbols |-> <<>>])
    /\ hir_scopes' = Append(hir_scopes, Len(scopes))
    /\ UNCHANGED <<mods, ast_items, hir_items, hirCalls>>
    /\ UNCHANGED <<internVars, checkVars, lowerVars, moreVars>>

\* HirData::add_mod
add_mod(origin_id, name) ==
    /\ hirCalls < MaxHirCalls
    /\ scopes' = scope_add_symbol(origin_id, name, Defined("Mod", Len(mods)))
    /\ mods' = Append(mods, [origin_id |-> origin_id, name |-> name, target |-> None])
    /\ hirCalls' = hirCalls + 1
    /\ UNCHANGED <<ast_items, hir_items, hir_scopes>>
    /\ UNCHANGED <<internVars, checkVars, lowerVars, moreVars>>

\* add_item that takes the item's ID after the push
add_item_id_after_push(k, origin_id, name) ==
    /\ hirCalls < MaxHirCalls
    /\ ast_items' = [ast_items EXCEPT ![k] = Append(@, name)]
    /\ hir_items' = [hir_items EXCEPT ![k] = Append(@, [origin_id |-> origin_id, name |-> name])]
    /\ scopes' = scope_add_symbol(origin_id, name, Defined(k, Len(ast_items'[k])))
    /\ hirCalls' = hirCalls + 1
    /\ UNCHANGED <<mods, hir_scopes>>
    /\ UNCHANGED <<internVars, checkVars, lowerVars, moreVars>>
\* HirData::add_proc, add_enum, add_union, add_struct, add_const and
\* add_global: the six bodies differ only in the tables they push to
add_item(k, origin_id, name) ==
    /\ hirCalls < MaxHirCalls
    /\ ast_items' = [ast_items EXCEPT ![k] = Append(@, name)]
    /\ hir_items' = [hir_items EXCEPT ![k] = Append(@, [origin_id |-> origin_id, name |-> name])]
    /\ scopes' = scope_add_symbol(origin_id, name, Defined(k, Len(ast_items[k])))
    /\ hirCalls' = hirCalls + 1
    /\ UNCHANGED <<mods, hir_scopes>>
    /\ UNCHANGED <<internVars, checkVars, lowerVars, moreVars>>

add_proc   == \E o \in ScopeIDs : \E n \in Names : add_item("Proc", o, n)
add_enum   == \E o \in ScopeIDs : \E n \in Names : add_item("Enum", o, n)
add_union  == \E o \in ScopeIDs : \E n \in Names : add_item("Union", o, n)
add_struct == \E o \in ScopeIDs : \E n \in Names : add_item("Struct", o, n)
add_const  == \E o \in ScopeIDs : \E n \in Names : add_item("Const", o, n)
add_global == \E o \in ScopeIDs : \E n \in Names : add_item("Global", o, n)

\* the SymbolKind values that name an item or module added so far
LiveKinds ==
    {[kind |-> "Mod", id |-> i] : i \in 0 .. Len(mods) - 1}
    \cup UNION {{[kind |-> k, id |-> i] : i \in 0 .. Len(hir_items[k]) - 1} : k \in ItemKinds}

\* HirData::scope_add_imported
scope_add_imported(origin_id, use_name, kind) ==
    /\ hirCalls < MaxHirCalls
    /\ scopes' = scope_add_symbol(origin_id, use_name, Imported(kind.kind, kind.id))
    /\ hirCalls' = hirCalls + 1
    /\ UNCHANGED <<mods, ast_items, hir_items, hir_scopes>>
    /\ UNCHANGED <<internVars, checkVars, lowerVars, moreVars>>

allow_use_unprefixed(origin_id, target_id, path_kind) == path_kind = "None"

\* symbol_from_scope: whether an Imported entry may be used
allow_use(origin_id, target_id, path_kind) ==
    path_kind = "None" /\ origin_id = target_id

\* HirData::symbol_from_scope: Some(kind) or None
symbol_from_scope(origin_id, target_id, path_kind, id) ==
    LET target == scopes[target_id + 1]
    IN  IF id \in DOMAIN target.symbols
        THEN LET symbol == target.symbols[id]
             IN  IF symbol.tag = "Defined"
                 THEN Some([kind |-> symbol.kind, id |-> symbol.id])
                 ELSE IF allow_use(origin_id, target_id, path_kind)
                      THEN Some([kind |-> symbol.kind, id |-> symbol.id])
                      ELSE None
        ELSE None

HirAddScope == \E parent \in {None} \cup {Some(p) : p \in ScopeIDs} : add_scope(parent)
HirAddMod == \E o \in ScopeIDs : \E n \in Names : add_mod(o, n)
HirAddImported ==
    \E o \in ScopeIDs : \E n \in Names : \E kind \in LiveKinds : scope_add_imported(o, n, kind)
HirNext ==
    \/ HirAddScope
    \/ HirAddMod
    \/ add_proc
    \/ add_enum
    \/ add_union
    \/ add_struct
    \/ add_const
    \/ add_global
    \/ HirAddImported

SpecHir == HirInit /\ [][HirNext]_vars

\* ------------------------------------------------------------------------
\* Properties of the scope tables
\* ------------------------------------------------------------------------

\* C4: in every scope a name is bound to at most one symbol: an insertion
\* under a name already bound in that scope is rejected and leaves the
\* earlier binding unchanged.
C4_RebindLeavesBinding ==
    [][\A s \in 1 .. Len(scopes) : \A n \in DOMAIN scopes[s].symbols :
          scopes'[s].symbols[n] = scopes[s].symbols[n]]_vars

\* C5: for every origin scope, target scope, path kind and name,
\* symbol_from_scope returns a symbol exactly when the target scope binds the
\* name and the entry is Defined, or is Imported and the lookup is unprefixed
\* and made from the target scope itself; it then returns the entry's kind.
\* An Imported entry is never returned to another scope or through a
\* `super` / `package` path.
C5_ImportedOnlyFromInside ==
    \A origin_id \in ScopeIDs : \A target_id \in ScopeIDs :
    \A path_kind \in PathKinds : \A id \in Names :
        LET symbols == scopes[target_id + 1].symbols
            result  == symbol_from_scope(origin_id, target_id, path_kind, id)
        IN  /\ result # None <=>
                  /\ id \in DOMAIN symbols
                  /\ \/ symbols[id].tag = "Defined"
                     \/ path_kind = "None" /\ origin_id = target_id
            /\ result # None =>
                  result[1] = [kind |-> symbols[id].kind, id |-> symbols[id].id]

\* a scope holds an Imported entry that a lookup from another scope is
\* refused and a lookup from the scope itself gets
C5_Witness ==
    \E origin_id \in ScopeIDs : \E target_id \in ScopeIDs : \E id \in Names :
        /\ origin_id # target_id
        /\ id \in DOMAIN scopes[target_id + 1].symbols
        /\ scopes[target_id + 1].symbols[id].tag = "Imported"
        /\ symbol_from_scope(origin_id, target_id, "None", id) = None
        /\ symbol_from_scope(target_id, target_id, "None", id) # None

\* the ID of a symbol indexes a record of the table of its kind
SymbolLive(symbol) ==
    IF symbol.kind = "Mod"
    THEN symbol.id < Len(mods)
    ELSE symbol.id < Len(hir_items[symbol.kind])

C1_SameStringSameID ==
    \A p \in returned : \A q \in returned : p[1] = q[1] => p[2] = q[2]

\* C2: two intern calls with different strings never return the same
\* InternID, also when the two strings have the same hash.
C2_DistinctStringsDistinctIDs ==
    \A p \in returned : \A q \in returned : p[2] = q[2] => p[1] = q[1]

\* two different strings with the same hash have both been interned
C2_Witness ==
    \E p \in returned : \E q \in returned :
        p[1] # q[1] /\ hash_djb2(p[1]) = hash_djb2(q[1])

\* C3: every ID intern ever returned indexes a stored entry, and get_str
\* of it is the string that was interned, after any later intern calls.
C3_GetStrStable ==
    \A p \in returned : p[2] < Len(strings) /\ get_str(p[2]) = p[1]

\* an ID returned earlier is still read back after two more entries were
\* stored behind a non-empty one
C3_Witness ==
    \E p \in returned :
        /\ p[2] + 2 < Len(strings)
        /\ p[1] # <<>>
        /\ strings[p[2] + 1].start > 0

\* ------------------------------------------------------------------------
\* check.rs: the Ast handed to check()
\* ------------------------------------------------------------------------

\* ast::Vis
Public == "Public"
Private == "Private"

\* a file path below the source directory: the directories and the file
\* stem ("mod" is mod.lang, "main" is main.lang)
Path(dir, file) == [dir |-> dir, file |-> file]

\* pass_0: root_path (test/main.lang)
root_path == Path(<<>>, "main")

\* pass_0: origin.pop()
origin(path) == path.dir

\* pass_0: origin.join(name + ".lang")
path1(dir, name) == Path(dir, name)

\* pass_0: origin.join(name).join("mod.lang")
path2(dir, name) == Path(Append(dir, name), "mod")

\* Decl::Mod
ModDecl(vis, name) ==
    [k |-> "Mod", vis |-> vis, name |-> name, path_kind |-> "None", names |-> <<>>, symbols |-> <<>>]

\* Decl::Proc
ProcDecl(vis, name) ==
    [k |-> "Proc", vis |-> vis, name |-> name, path_kind |-> "None", names |-> <<>>, symbols |-> <<>>]

\* Decl::Struct
StructDecl(vis, name) ==
    [k |-> "Struct", vis |-> vis, name |-> name, path_kind |-> "None", names |-> <<>>, symbols |-> <<>>]

\* Decl::Use: `import <path_kind>/<names>.{symbols}`
UseDecl(path_kind, names, symbols) ==
    [k |-> "Use", vis |-> Private, name |-> "", path_kind |-> path_kind, names |-> names,
     symbols |-> symbols]

\* one symbol of a UseDecl
ImportSymbol(name, alias) == [name |-> name, alias |-> alias]

\* the kinds add_declared! stores in an item table
DeclaredKinds == {"Proc", "Struct"}

\* ------------------------------------------------------------------------
\* Scope and Context helpers.  Their bodies are not among the sources;
\* they are modelled from their call sites and names: a scope has one
\* table from names to symbol ids, each entry declared or imported.
\* ------------------------------------------------------------------------

\* Scope::new
Scope_new(module, parent_id) == [module |-> module, parent_id |-> parent_id, symbols |-> <<>>]

\* Scope::get_symbol
get_symbol(scope, id) ==
    IF id \in DOMAIN scope.symbols
    THEN Some([kind |-> scope.symbols[id].kind, id |-> scope.symbols[id].id])
    ELSE None

\* Scope::add_declared_symbol
add_declared_symbol(symbols, id, symbol_id) ==
    IF id \in DOMAIN symbols THEN symbols
    ELSE MapInsert(symbols, id, [kind |-> symbol_id.kind, id |-> symbol_id.id, imported |-> FALSE])

\* Scope::add_imported_symbol
add_imported_symbol(symbols, id, symbol_id) ==
    IF id \in DOMAIN symbols THEN symbols
    ELSE MapInsert(symbols, id, [kind |-> symbol_id.kind, id |-> symbol_id.id, imported |-> TRUE])

\* Scope::get_module: Ok(module_id), Err(Some(symbol)) or Err(None)
get_module(scope, id) ==
    IF id \in DOMAIN scope.symbols
    THEN IF scope.symbols[id].kind = "Module"
         THEN [ok |-> TRUE, module_id |-> scope.symbols[id].id, symbol |-> None]
         ELSE [ok |-> FALSE, module_id |-> 0, symbol |-> get_symbol(scope, id)]
    ELSE [ok |-> FALSE, module_id |-> 0, symbol |-> None]

\* Context::get_symbol_vis
get_symbol_vis(modules, items, symbol_id) ==
    IF symbol_id.kind = "Module"
    THEN modules[symbol_id.id + 1].decl.vis
    ELSE items[symbol_id.kind][symbol_id.id + 1].decl.vis

\* Context::get_symbol_id_src: the scope and declaration a symbol id names
get_symbol_id_src(modules, items, symbol_id) ==
    LET data == IF symbol_id.kind = "Module" THEN modules[symbol_id.id + 1]
                ELSE items[symbol_id.kind][symbol_id.id + 1]
    IN  [scope |-> data.from_id, decl |-> data.decl.idx, name |-> data.decl.name]

\* ------------------------------------------------------------------------
\* Diagnostics: report / report_no_src write one error, report_info one
\* info line attached to the error before it.
\* ------------------------------------------------------------------------

report(st, message, src) ==
    [st EXCEPT !.reports = Append(@, [sev |-> "error", message |-> message, src |-> Some(src)])]

report_info(st, marker, src) ==
    [st EXCEPT !.reports = Append(@, [sev |-> "info", message |-> marker, src |-> Some(src)])]

\* report_no_src
report_no_src(log, message) ==
    Append(log, [sev |-> "error", message |-> message, src |-> None])

\* Scope::src of a declaration's name (or of an import's path or symbol)
SrcOf(sid, idx, name) == [scope |-> sid, decl |-> idx, name |-> name]

\* ------------------------------------------------------------------------
\* pass_0_populate_scopes
\* ------------------------------------------------------------------------

\* module_map values: Ok(module) and Err(src of the claiming declaration)
MapOk == [taken |-> None]

\* `*node = Err(src)`, the variant that leaves the entry as it was first
MapErr_unmarked(src) == [taken |-> None]

MapErr(src) == [taken |-> Some(src)]

\* the part of the state one ScopeTreeTask works on
Pass0State ==
    [scopes |-> ctx_scopes, modules |-> ctx_modules, items |-> ctx_items,
     module_map |-> module_map, tasks |-> tasks, reports |-> reports, mod_log |-> mod_log]

\* add_declared!: TRUE when the name is already bound in the scope
already_declared(st, sid, name) == get_symbol(st.scopes[sid + 1], name) # None

\* add_declared!, redefinition branch
declare_redefinition(st, sid, idx, name) ==
    LET existing == get_symbol(st.scopes[sid + 1], name)[1]
    IN  report_info(report(st, "symbol redefinition", SrcOf(sid, idx, name)),
                    "already declared here", get_symbol_id_src(st.modules, st.items, existing))

\* add_declared! for Decl::Proc, Decl::Struct (and Global, Enum, Union)
declare_item(st, sid, idx, decl) ==
    IF already_declared(st, sid, decl.name)
    THEN declare_redefinition(st, sid, idx, decl.name)
    ELSE LET id == Len(st.items[decl.k])
             data == [from_id |-> sid, decl |-> [idx |-> idx, name |-> decl.name, vis |-> decl.vis]]
         IN  [st EXCEPT !.items[decl.k] = Append(@, data),
                        !.scopes[sid + 1].symbols =
                            add_declared_symbol(@, decl.name, [kind |-> decl.k, id |-> id])]

\* how one Decl::Mod was handled: what pass_0 saw when it reached it and
\* the reports it wrote (reports first+1 .. last)
ModLogEntry(st, sid, idx, decl, first, last) ==
    LET file == st.scopes[sid + 1].module
        p1 == path1(origin(file), decl.name)
        p2 == path2(origin(file), decl.name)
    IN  [scope_id |-> sid, decl |-> idx, name |-> decl.name,
         bound |-> already_declared(st, sid, decl.name),
         exists1 |-> p1 \in DOMAIN st.module_map,
         exists2 |-> p2 \in DOMAIN st.module_map,
         free1 |-> p1 \in DOMAIN st.module_map /\ st.module_map[p1].taken = None,
         free2 |-> p2 \in DOMAIN st.module_map /\ st.module_map[p2].taken = None,
         first |-> first, last |-> last]

\* a claim that does not look at who holds the file
claim_module_again(st, sid, idx, module_id, name, path) ==
    LET src == SrcOf(sid, idx, name)
    IN  [st EXCEPT !.module_map[path] = MapErr(src),
                   !.tasks = Append(@, [module |-> path,
                                        parent |-> Some([scope_id |-> sid, module_id |-> module_id])])]

\* the claim of a module file found at `path`, or the report that it is taken
claim_module(st, sid, idx, module_id, name, path) ==
    LET src == SrcOf(sid, idx, name)
    IN  IF st.module_map[path].taken = None
        THEN [st EXCEPT !.module_map[path] = MapErr(src),
                        !.tasks = Append(@, [module |-> path,
                                             parent |-> Some([scope_id |-> sid, module_id |-> module_id])])]
        ELSE report_info(report(st, "module has been taken", src),
                         "by this module declaration", st.module_map[path].taken[1])

\* Decl::Mod after add_declared! succeeded
resolve_mod_file(st, sid, idx, module_id, name) ==
    LET file == st.scopes[sid + 1].module
        p1 == path1(origin(file), name)
        p2 == path2(origin(file), name)
        src == SrcOf(sid, idx, name)
        e1 == p1 \in DOMAIN st.module_map
        e2 == p2 \in DOMAIN st.module_map
    IN  IF ~e1 /\ ~e2 THEN report(st, "both module paths are missing", src)
        ELSE IF e1 /\ e2 THEN report(st, "both module paths are prevent", src)
        ELSE IF e1 THEN claim_module(st, sid, idx, module_id, name, p1)
        ELSE claim_module(st, sid, idx, module_id, name, p2)

\* Decl::Mod
declare_mod(st, sid, idx, decl) ==
    LET done ==
            IF already_declared(st, sid, decl.name)
            THEN declare_redefinition(st, sid, idx, decl.name)
            ELSE LET module_id == Len(st.modules)
                     data == [from_id |-> sid,
                              decl |-> [idx |-> idx, name |-> decl.name, vis |-> decl.vis],
                              target_id |-> None]
                     st1 == [st EXCEPT !.modules = Append(@, data),
                                       !.scopes[sid + 1].symbols =
                                           add_declared_symbol(@, decl.name,
                                               [kind |-> "Module", id |-> module_id])]
                 IN  resolve_mod_file(st1, sid, idx, module_id, decl.name)
    IN  [done EXCEPT !.mod_log =
            Append(@, ModLogEntry(st, sid, idx, decl, Len(st.reports), Len(done.reports)))]

\* `for decl in task.module.decls`, from declaration idx on
RECURSIVE declare_all(_, _, _, _)
declare_all(st, sid, decls, idx) ==
    IF idx > Len(decls) THEN st
    ELSE LET decl == decls[idx]
             st1 == IF decl.k = "Mod" THEN declare_mod(st, sid, idx, decl)
                    ELSE IF decl.k \in DeclaredKinds THEN declare_item(st, sid, idx, decl)
                    ELSE st
         IN  declare_all(st1, sid, decls, idx + 1)

\* the start of pass_0: module_map is filled and the root task is pushed,
\* or the missing root is reported and pass_0 returns
Pass0Start ==
    /\ pc = "pass_0"
    /\ module_map' = [path \in DOMAIN ast |-> MapOk]
    /\ IF root_path \in DOMAIN ast
       THEN /\ tasks' = <<[module |-> root_path, parent |-> None]>>
            /\ reports' = reports
            /\ pc' = "pass_0_tasks"
       ELSE /\ tasks' = <<>>
            /\ reports' = report_no_src(reports, "missing root main or lib module")
            /\ pc' = "pass_2"
    /\ UNCHANGED <<ast, ctx_scopes, ctx_modules, ctx_items, scope_id, import_tasks,
                   progress, iterations, mod_log, sym_log>>
    /\ UNCHANGED <<internVars, hirVars, lowerVars, moreVars>>

\* one turn of `while let Some(task) = tasks.pop()`
Pass0Task ==
    /\ pc = "pass_0_tasks"
    /\ tasks # <<>>
    /\ LET task == tasks[Len(tasks)]
           parent_id == IF task.parent = None THEN None ELSE Some(task.parent[1].scope_id)
           sid == Len(ctx_scopes)
           st0 == [Pass0State EXCEPT
                      !.tasks = SubSeq(tasks, 1, Len(tasks) - 1),
                      !.scopes = Append(@, Scope_new(task.module, parent_id)),
                      !.modules = IF task.parent = None THEN @
                                  ELSE [@ EXCEPT ![task.parent[1].module_id + 1].target_id = Some(sid)]]
           st == declare_all(st0, sid, ast[task.module], 1)
       IN  /\ ctx_scopes' = st.scopes
           /\ ctx_modules' = st.modules
           /\ ctx_items' = st.items
           /\ module_map' = st.module_map
           /\ tasks' = st.tasks
           /\ reports' = st.reports
           /\ mod_log' = st.mod_log
    /\ UNCHANGED <<ast, pc, scope_id, import_tasks, progress, iterations, sym_log>>
    /\ UNCHANGED <<internVars, hirVars, lowerVars, moreVars>>

\* the worklist is empty: pass_0 returns (pass_1_check_namesets changes
\* nothing pass_2 reads)
Pass0Done ==
    /\ pc = "pass_0_tasks"
    /\ tasks = <<>>
    /\ pc' = "pass_2"
    /\ UNCHANGED <<ast, ctx_scopes, ctx_modules, ctx_items, module_map, tasks, scope_id,
                   import_tasks, progress, iterations, reports, mod_log, sym_log>>
    /\ UNCHANGED <<internVars, hirVars, lowerVars, moreVars>>

\* ------------------------------------------------------------------------
\* pass_2_import_symbols
\* ------------------------------------------------------------------------

\* `for decl in ...module.decls { Decl::Use(import_decl) => import_tasks.push }`
RECURSIVE collect_imports(_, _)
collect_imports(decls, idx) ==
    IF idx > Len(decls) THEN <<>>
    ELSE IF decls[idx].k = "Use"
         THEN <<[idx |-> idx, import_decl |-> decls[idx], resolved |-> FALSE]>>
              \o collect_imports(decls, idx + 1)
         ELSE collect_imports(decls, idx + 1)

\* the part of the state one pass over import_tasks works on
Pass2State ==
    [scopes |-> ctx_scopes, import_tasks |-> import_tasks, reports |-> reports,
     sym_log |-> sym_log, curr_progress |-> 0]

\* a task that is counted but not marked
mark_resolved_count_only(st, t) == [st EXCEPT !.curr_progress = @ + 1]

\* `task.resolved = true; curr_progress += 1`
mark_resolved(st, t) ==
    [st EXCEPT !.import_tasks[t].resolved = TRUE, !.curr_progress = @ + 1]

\* `resolve module path`: walks path.names from from_id.  The result is
\* "ok" with the scope reached, "unresolved" (a name is bound to nothing,
\* the task is tried again) or "failed" (reported, the task is given up)
RECURSIVE resolve_module_path(_, _, _, _, _, _, _)
resolve_module_path(st, modules, items, sid, idx, names, from_id) ==
    IF names = <<>> THEN [status |-> "ok", from_id |-> from_id, st |-> st]
    ELSE LET name == Head(names)
             found == get_module(st.scopes[from_id + 1], name)
         IN  IF ~found.ok
             THEN IF found.symbol # None
                  THEN [status |-> "failed", from_id |-> from_id,
                        st |-> report_info(report(st, "module not found", SrcOf(sid, idx, name)),
                                           "name refers to this declaration",
                                           get_symbol_id_src(modules, items, found.symbol[1]))]
                  ELSE [status |-> "unresolved", from_id |-> from_id, st |-> st]
             ELSE LET target_id == modules[found.module_id + 1].target_id
                  IN  IF target_id = None
                      THEN [status |-> "failed", from_id |-> from_id,
                            st |-> report(st, "module file is missing as reported earlier",
                                          SrcOf(sid, idx, name))]
                      ELSE resolve_module_path(st, modules, items, sid, idx, Tail(names),
                                               target_id[1])

\* an import that lets every symbol through
import_private_never(vis, from_id) == FALSE

\* `vis == Vis::Private && from_id.0 != 0`
import_private(vis, from_id) == vis = Private /\ from_id # 0

\* `match import_symbol.alias { Some(alias) => alias, None => import_symbol.name }`
import_name(import_symbol) ==
    IF import_symbol.alias # None THEN import_symbol.alias[1] ELSE import_symbol.name

\* what pass_2 saw of one symbol of an import and the reports it wrote
SymLogEntry(sid, from_id, idx, import_symbol, found, private, bound, first, last) ==
    [scope_id |-> sid, from_id |-> from_id, decl |-> idx, name |-> import_symbol.name,
     alias |-> import_symbol.alias, found |-> found, private |-> private, bound |-> bound,
     first |-> first, last |-> last]

\* `collect visible symbol imports`: the ImportSymbolTasks, in order
RECURSIVE collect_symbols(_, _, _, _, _, _, _, _)
collect_symbols(st, modules, items, sid, idx, from_id, symbols, acc) ==
    IF symbols = <<>> THEN [st |-> st, import_symbol_tasks |-> acc]
    ELSE LET import_symbol == Head(symbols)
             found == get_symbol(st.scopes[from_id + 1], import_symbol.name)
             src == SrcOf(sid, idx, import_symbol.name)
         IN  IF found = None
             THEN LET st1 == report(st, "symbol not found in path", src)
                      entry == SymLogEntry(sid, from_id, idx, import_symbol, None, FALSE, FALSE,
                                           Len(st.reports), Len(st1.reports))
                  IN  collect_symbols([st1 EXCEPT !.sym_log = Append(@, entry)], modules, items,
                                      sid, idx, from_id, Tail(symbols), acc)
             ELSE LET vis == get_symbol_vis(modules, items, found[1])
                  IN  IF import_private(vis, from_id)
                      THEN LET st1 == report_info(report(st, "symbol is private", src),
                                          "private declaration",
                                          get_symbol_id_src(modules, items, found[1]))
                               entry == SymLogEntry(sid, from_id, idx, import_symbol, found, TRUE,
                                                    FALSE, Len(st.reports), Len(st1.reports))
                           IN  collect_symbols([st1 EXCEPT !.sym_log = Append(@, entry)], modules,
                                               items, sid, idx, from_id, Tail(symbols), acc)
                      ELSE collect_symbols(st, modules, items, sid, idx, from_id, Tail(symbols),
                               Append(acc, [symbol_id |-> found[1], name |-> import_name(import_symbol),
                                            import_symbol |-> import_symbol,
                                            private |-> vis = Private]))

\* `import into scope`
RECURSIVE install_symbols(_, _, _, _, _, _, _)
install_symbols(st, modules, items, sid, idx, from_id, import_symbol_tasks) ==
    IF import_symbol_tasks = <<>> THEN st
    ELSE LET task == Head(import_symbol_tasks)
             symbols == st.scopes[sid + 1].symbols
             bound == task.name \in DOMAIN symbols
             st1 == IF bound
                    THEN report_info(report(st, "symbol redifinition", SrcOf(sid, idx, task.name)),
                             "already declared here",
                             IF symbols[task.name].imported
                             THEN SrcOf(sid, 0, task.name)
                             ELSE get_symbol_id_src(modules, items,
                                      [kind |-> symbols[task.name].kind, id |-> symbols[task.name].id]))
                    ELSE [st EXCEPT !.scopes[sid + 1].symbols =
                              add_imported_symbol(@, task.name, task.symbol_id)]
             entry == SymLogEntry(sid, from_id, idx, task.import_symbol, Some(task.symbol_id),
                                  task.private, bound, Len(st.reports), Len(st1.reports))
         IN  install_symbols([st1 EXCEPT !.sym_log = Append(@, entry)], modules, items, sid, idx,
                             from_id, Tail(import_symbol_tasks))

\* the body of `'task: for task in import_tasks.iter_mut()` for task t
import_task(st, modules, items, sid, t) ==
    LET task == st.import_tasks[t]
        decl == task.import_decl
        scope == st.scopes[sid + 1]
    IN  IF task.resolved THEN [st EXCEPT !.curr_progress = @ + 1]
        ELSE IF decl.path_kind = "Super" /\ scope.parent_id = None
        THEN mark_resolved(report(st, "cannot use super from the root module",
                                  SrcOf(sid, task.idx, "super")), t)
        ELSE LET start == IF decl.path_kind = "None" THEN sid
                          ELSE IF decl.path_kind = "Super" THEN scope.parent_id[1]
                          ELSE 0
                 walk == resolve_module_path(st, modules, items, sid, task.idx, decl.names, start)
             IN  IF walk.status = "unresolved" THEN walk.st
                 ELSE IF walk.status = "failed" THEN mark_resolved(walk.st, t)
                 ELSE IF walk.from_id = sid
                 THEN mark_resolved(report(walk.st, "importing from self is redundant",
                                           SrcOf(sid, task.idx, "path")), t)
                 ELSE LET st1 == mark_resolved(walk.st, t)
                          got == collect_symbols(st1, modules, items, sid, task.idx, walk.from_id,
                                                 decl.symbols, <<>>)
                      IN  install_symbols(got.st, modules, items, sid, task.idx, walk.from_id,
                                          got.import_symbol_tasks)

\* one pass of `for task in import_tasks.iter_mut()`, from task t on
RECURSIVE import_pass(_, _, _, _, _)
import_pass(st, modules, items, sid, t) ==
    IF t > Len(st.import_tasks) THEN st
    ELSE import_pass(import_task(st, modules, items, sid, t), modules, items, sid, t + 1)

\* an exit test that goes on when nothing new was resolved
loop_exit_strict(prev_progress, curr_progress) == prev_progress > curr_progress

\* `if progress >= curr_progress { break; }`
loop_exit(prev_progress, curr_progress) == prev_progress >= curr_progress

\* a loop that never records the progress of an iteration
next_progress_stale(prev_progress, curr_progress) == prev_progress

\* `progress = curr_progress`
next_progress(prev_progress, curr_progress) == curr_progress

\* `report unresolved paths`
RECURSIVE report_unresolved(_, _, _, _)
report_unresolved(log, sid, its, t) ==
    IF t > Len(its) THEN log
    ELSE IF ~its[t].resolved /\ its[t].import_decl.names # <<>>
         THEN report_unresolved(
                  Append(log, [sev |-> "error", message |-> "module not found",
                               src |-> Some(SrcOf(sid, its[t].idx, Head(its[t].import_decl.names)))]),
                  sid, its, t + 1)
         ELSE report_unresolved(log, sid, its, t + 1)

\* `for scope_id in context.scope_iter()`: the imports of the next scope
\* are collected, or pass_2 returns
Pass2Scope ==
    /\ pc = "pass_2"
    /\ IF scope_id < Len(ctx_scopes)
       THEN /\ import_tasks' = collect_imports(ast[ctx_scopes[scope_id + 1].module], 1)
            /\ pc' = "pass_2_loop"
       ELSE /\ import_tasks' = <<>>
            /\ pc' = "pass_3"
    /\ progress' = 0
    /\ iterations' = 0
    /\ UNCHANGED <<ast, ctx_scopes, ctx_modules, ctx_items, module_map, tasks, scope_id,
                   reports, mod_log, sym_log>>
    /\ UNCHANGED <<internVars, hirVars, lowerVars, moreVars>>

\* one iteration of the fixpoint `loop`
Pass2Iterate ==
    /\ pc = "pass_2_loop"
    /\ LET st == import_pass(Pass2State, ctx_modules, ctx_items, scope_id, 1)
       IN  /\ ctx_scopes' = st.scopes
           /\ import_tasks' = st.import_tasks
           /\ reports' = st.reports
           /\ sym_log' = st.sym_log
           /\ IF loop_exit(progress, st.curr_progress)
              THEN /\ pc' = "pass_2_report"
                   /\ progress' = progress
              ELSE /\ pc' = pc
                   /\ progress' = next_progress(progress, st.curr_progress)
    /\ iterations' = iterations + 1
    /\ UNCHANGED <<ast, ctx_modules, ctx_items, module_map, tasks, scope_id, mod_log>>
    /\ UNCHANGED <<internVars, hirVars, lowerVars, moreVars>>

\* `report unresolved paths`, then the next scope
Pass2Report ==
    /\ pc = "pass_2_report"
    /\ reports' = report_unresolved(reports, scope_id, import_tasks, 1)
    /\ scope_id' = scope_id + 1
    /\ pc' = "pass_2"
    /\ UNCHANGED <<ast, ctx_scopes, ctx_modules, ctx_items, module_map, tasks, import_tasks,
                   progress, iterations, mod_log, sym_log>>
    /\ UNCHANGED <<internVars, hirVars, lowerVars, moreVars>>

\* ------------------------------------------------------------------------
\* The programs check() is run on
\* ------------------------------------------------------------------------

\* all sequences over S of length at most n
SeqsUpTo(S, n) == UNION {[1 .. k -> S] : k \in 0 .. n}

\* the source files: main.lang, a.lang, a/mod.lang and b.lang
SourcePaths == <<root_path, Path(<<>>, "a"), Path(<<"a">>, "mod"), Path(<<>>, "b")>>

\* the Ast of the files that exist; content[i] is None for a missing file
Program(content) ==
    LET present == {i \in DOMAIN SourcePaths : content[i] # None}
    IN  [path \in {SourcePaths[i] : i \in present} |->
            content[CHOOSE i \in present : SourcePaths[i] = path][1]]

\* module layouts: which files exist and which modules they declare
LayoutPrograms ==
    LET root == {None} \cup
                {Some(d) : d \in SeqsUpTo({ModDecl(Private, "a"), ModDecl(Private, "b"),
                                           ModDecl(Private, "main"), ProcDecl(Private, "a")},
                                          MaxRootDecls)}
        child == {None} \cup
                 {Some(d) : d \in SeqsUpTo({ModDecl(Private, "a"), ModDecl(Private, "b"),
                                            ModDecl(Private, "main")}, 1)}
        nested == {None, Some(<<>>), Some(<<ModDecl(Private, "b")>>)}
    IN  {Program(<<r, a, am, b>>) : r \in root, a \in child, am \in nested, b \in child}

\* import statements of the root module
RootImports ==
    {UseDecl("Super", <<>>, <<ImportSymbol("x", None)>>),
     UseDecl("None", <<"a", "b">>, <<ImportSymbol("x", None)>>),
     UseDecl("None", <<"b">>, <<ImportSymbol("x", None), ImportSymbol("y", Some("p"))>>)}

\* import statements of module b
BImports ==
    {UseDecl("Super", <<"a">>, <<ImportSymbol("q", None)>>),
     UseDecl("Package", <<>>, <<ImportSymbol("p", None), ImportSymbol("a", None)>>)}

\* import statements of module a
AImports ==
    {UseDecl("Package", <<>>, <<ImportSymbol("b", None)>>),
     UseDecl("None", <<"b">>, <<ImportSymbol("x", Some("z"))>>),
     UseDecl("Super", <<"b">>, <<ImportSymbol("y", None), ImportSymbol("x", None)>>),
     UseDecl("Package", <<>>, <<ImportSymbol("p", Some("b"))>>),
     UseDecl("Super", <<"a">>, <<ImportSymbol("q", None)>>),
     UseDecl("None", <<"c">>, <<ImportSymbol("x", None)>>),
     UseDecl("Package", <<"c">>, <<ImportSymbol("x", None)>>)}

\* import programs: main.lang declares modules a and b and a private
\* procedure; a.lang and b.lang declare public and private procedures
ImportPrograms ==
    {Program(<<Some(<<ModDecl(Private, "a"), ModDecl(Public, "b"), ProcDecl(Private, "p")>> \o r),
               Some(<<ProcDecl(Private, "q"), ProcDecl(Public, "w")>> \o a),
               None,
               Some(<<ProcDecl(Public, "x"), ProcDecl(Private, "y")>> \o b)>>) :
        r \in SeqsUpTo(RootImports, 1), a \in SeqsUpTo(AImports, MaxImports),
        b \in SeqsUpTo(BImports, 1)}

\* ------------------------------------------------------------------------
\* pass_3_check_main_decl and pass_3_typecheck
\* ------------------------------------------------------------------------

\* the identifiers of the files: the strings the intern pool holds when check
\* is called
Identifiers(program) ==
    UNION {UNION {{decls[i].name} \cup {decls[i].names[n] : n \in DOMAIN decls[i].names}
                    \cup {decls[i].symbols[n].name : n \in DOMAIN decls[i].symbols}
                    \cup UNION {{decls[i].symbols[n].alias[1]} \ {""} :
                                n \in {m \in DOMAIN decls[i].symbols :
                                            decls[i].symbols[m].alias # None}}
                  : i \in DOMAIN decls}
           : decls \in {program[path] : path \in DOMAIN program}} \ {""}

\* InternPool::try_get_str_id (intern.rs:53-61) on that pool
try_get_str_id(program, string) ==
    IF string \in Identifiers(program) THEN Some(string) ELSE None

\* Scope::get_declared_proc: Ok for a procedure declared in the scope
get_declared_proc(scope, id) ==
    IF /\ id \in DOMAIN scope.symbols
       /\ scope.symbols[id].kind = "Proc"
       /\ ~scope.symbols[id].imported
    THEN [ok |-> TRUE, proc_id |-> scope.symbols[id].id]
    ELSE [ok |-> FALSE, proc_id |-> 0]

\* pass_3_check_main_decl (check.rs:429-451), with pass_3_typecheck behind it
\* (561-579, a loop over the scopes that exist).  context.get_scope(ScopeID(0))
\* finds no scope when pass_0 has returned without the root: check does not
\* get past that call
Pass3CheckMainDecl ==
    /\ pc = "pass_3"
    /\ IF try_get_str_id(ast, "main") = None
       THEN /\ reports' = report_no_src(reports, "missing main procedure")
            /\ pc' = "done"
       ELSE IF Len(ctx_scopes) = 0
       THEN /\ reports' = reports
            /\ pc' = "panic"
       ELSE /\ reports' = IF get_declared_proc(ctx_scopes[1], "main").ok THEN reports
                          ELSE report_no_src(reports, "missing main procedure")
            /\ pc' = "done"
    /\ UNCHANGED <<ast, ctx_scopes, ctx_modules, ctx_items, module_map, tasks, scope_id,
                   import_tasks, progress, iterations, mod_log, sym_log>>
    /\ UNCHANGED <<internVars, hirVars, lowerVars, moreVars>>

\* Context::new and the call of check()
CheckInit ==
    /\ InternIdle
    /\ HirIdle
    /\ LowerIdle
    /\ MoreIdle
    /\ ast = <<>>
    /\ ctx_scopes = <<>>
    /\ ctx_modules = <<>>
    /\ ctx_items = [k \in DeclaredKinds |-> <<>>]
    /\ module_map = <<>>
    /\ tasks = <<>>
    /\ pc = "idle"
    /\ scope_id = 0
    /\ import_tasks = <<>>
    /\ progress = 0
    /\ iterations = 0
    /\ reports = <<>>
    /\ mod_log = <<>>
    /\ sym_log = <<>>

\* check(ast) is called on a parsed program
check ==
    /\ pc = "idle"
    /\ \E program \in LayoutPrograms \cup ImportPrograms : ast' = program
    /\ pc' = "pass_0"
    /\ UNCHANGED <<ctx_scopes, ctx_modules, ctx_items, module_map, tasks, scope_id,
                   import_tasks, progress, iterations, reports, mod_log, sym_log>>
    /\ UNCHANGED <<internVars, hirVars, lowerVars, moreVars>>

CheckNext ==
    \/ check
    \/ Pass0Start
    \/ Pass0Task
    \/ Pass0Done
    \/ Pass2Scope
    \/ Pass2Iterate
    \/ Pass2Report
    \/ Pass3CheckMainDecl

SpecCheck == CheckInit /\ [][CheckNext]_vars

\* a task is on the stack of pass_0: the guard of Pass0Task
Pass0TaskReady == pc = "pass_0_tasks" /\ tasks # <<>>

\* the loop of pass_2 is about to iterate: the guard of Pass2Iterate
Pass2IterateReady == pc = "pass_2_loop"

\* check() runs to its end: it is sequential code that waits for nothing, so
\* each step that can be taken is taken. check, Pass0Task and Pass2Iterate
\* are total computations behind their guards and the only actions that
\* step from a state satisfying them, so their weak fairness is written with
\* the guard in the place of ENABLED and of the action.
FairSpecCheck ==
    /\ SpecCheck
    /\ ([]<>(pc # "idle") \/ []<><<pc = "idle">>_vars)
    /\ WF_vars(Pass0Start)
    /\ ([]<>(~Pass0TaskReady) \/ []<><<Pass0TaskReady>>_vars)
    /\ WF_vars(Pass0Done)
    /\ WF_vars(Pass2Scope)
    /\ ([]<>(~Pass2IterateReady) \/ []<><<Pass2IterateReady>>_vars)
    /\ WF_vars(Pass2Report)
    /\ WF_vars(Pass3CheckMainDecl)

\* every index the passes use is in range
CheckTypeOK ==
    /\ \A s \in 1 .. Len(ctx_scopes) :
          /\ ctx_scopes[s].module \in DOMAIN ast
          /\ ctx_scopes[s].parent_id # None => ctx_scopes[s].parent_id[1] < Len(ctx_scopes)
    /\ \A m \in 1 .. Len(ctx_modules) :
          /\ ctx_modules[m].from_id < Len(ctx_scopes)
          /\ ctx_modules[m].target_id # None => ctx_modules[m].target_id[1] < Len(ctx_scopes)

\* ------------------------------------------------------------------------
\* Properties of module discovery (pass_0)
\* ------------------------------------------------------------------------

\* pass_0 has returned
Pass0Returned == pc \notin {"idle", "pass_0", "pass_0_tasks"}

\* the ModuleData made for the declaration of a mod_log entry
ModDataOf(e) ==
    {m \in 1 .. Len(ctx_modules) :
        ctx_modules[m].from_id = e.scope_id /\ ctx_modules[m].decl.idx = e.decl}

\* exactly one of the two module paths existed and it was not yet claimed
OneFileFree(e) ==
    /\ e.exists1 # e.exists2
    /\ e.exists1 => e.free1
    /\ e.exists2 => e.free2

\* the file the declaration of a mod_log entry matched
MatchedFile(e) ==
    LET dir == origin(ctx_scopes[e.scope_id + 1].module)
    IN  IF e.exists1 THEN path1(dir, e.name) ELSE path2(dir, e.name)

\* a child scope for the matched file exists and is the module's target
ChildScopeBound(e) ==
    \E m \in ModDataOf(e) :
        /\ ctx_modules[m].target_id # None
        /\ LET t == ctx_modules[m].target_id[1]
           IN  /\ t < Len(ctx_scopes)
               /\ ctx_scopes[t + 1].parent_id = Some(e.scope_id)
               /\ ctx_scopes[t + 1].module = MatchedFile(e)

\* no module of the declaration has a target
TargetUnset(e) == \A m \in ModDataOf(e) : ctx_modules[m].target_id = None

\* an error was reported while the declaration was handled
ModDiagnostic(e) == \E k \in e.first + 1 .. e.last : reports[k].sev = "error"

\* C6 as stated: for every `mod NAME;` declaration a child scope is created
\* and bound as the module's target iff exactly one of the two paths exists
\* and is unclaimed; otherwise a diagnostic is emitted, no scope is created
\* and the target stays unset.
C6_ScopeIffOneFreeFile ==
    Pass0Returned =>
        \A i \in 1 .. Len(mod_log) :
            LET e == mod_log[i]
            IN  /\ ChildScopeBound(e) <=> OneFileFree(e)
                /\ ~OneFileFree(e) => ModDiagnostic(e) /\ TargetUnset(e)

\* C6 amended: the same for every `mod NAME;` declaration whose name is not
\* already bound in its scope; a declaration whose name is already bound is
\* reported as a redefinition and gets no module data, scope or target,
\* whatever files exist.
C6_ScopeIffOneFreeFileUnbound ==
    Pass0Returned =>
        \A i \in 1 .. Len(mod_log) :
            LET e == mod_log[i]
            IN  IF e.bound
                THEN ModDiagnostic(e) /\ ~ChildScopeBound(e) /\ TargetUnset(e)
                ELSE /\ ChildScopeBound(e) <=> OneFileFree(e)
                     /\ OneFileFree(e) => ~ModDiagnostic(e)
                     /\ ~OneFileFree(e) => ModDiagnostic(e) /\ TargetUnset(e)

\* pass_0 returned after one declaration got its child scope, one found its
\* file claimed, one found no file and one found both files
C6_Witness ==
    /\ Pass0Returned
    /\ \E i \in 1 .. Len(mod_log) : ~mod_log[i].bound /\ ChildScopeBound(mod_log[i])
    /\ \E i \in 1 .. Len(mod_log) :
          LET e == mod_log[i]
          IN  ~e.bound /\ e.exists1 # e.exists2 /\ ~OneFileFree(e) /\ TargetUnset(e)
    /\ \E i \in 1 .. Len(mod_log) :
          LET e == mod_log[i]
          IN  ~e.bound /\ (e.exists1 /\ e.exists2) /\ TargetUnset(e)

\* ------------------------------------------------------------------------
\* Properties of import resolution (pass_2)
\* ------------------------------------------------------------------------

\* the number of import tasks marked resolved
NumResolved(its) == Cardinality({t \in DOMAIN its : its[t].resolved})

\* N: the import statements of all modules of the program
TotalImports ==
    LET count[S \in SUBSET DOMAIN ast] ==
            IF S = {} THEN 0
            ELSE LET path == CHOOSE q \in S : TRUE
                 IN  Len(collect_imports(ast[path], 1)) + count[S \ {path}]
    IN  count[DOMAIN ast]

\* C7: the import-resolution loop terminates, and every iteration that does
\* not exit the loop leaves at least one more import marked resolved than
\* there was before it.
C7_IterationResolvesOrExits ==
    /\ [][(pc = "pass_2_loop" /\ pc' = "pass_2_loop")
            => NumResolved(import_tasks') > NumResolved(import_tasks)]_vars
    /\ <>(pc = "pass_3")

\* the loop went on after an iteration
C7_Witness == pc = "pass_2_loop" /\ iterations >= 1 /\ NumResolved(import_tasks) >= 1

\* C8 as stated: the fixpoint loop performs at most N iterations, N the
\* total number of import statements.
C8_AtMostNIterations == iterations <= TotalImports

\* C8 amended: the fixpoint loop of a scope performs at most n + 1
\* iterations, n the number of import statements of that scope (so at most
\* N + 1): the last iteration is the one that finds no progress.
C8_AtMostNPlusOneIterations ==
    /\ iterations <= Len(import_tasks) + 1
    /\ iterations <= TotalImports + 1

\* a scope with two imports needed three iterations
C8_Witness ==
    /\ pc = "pass_2_report"
    /\ Len(import_tasks) >= 2
    /\ iterations = Len(import_tasks) + 1

\* the whole fixpoint `loop` of one scope as a function of its import tasks
RECURSIVE run_loop(_, _, _, _, _)
run_loop(st, modules, items, sid, prev_progress) ==
    LET st1 == import_pass([st EXCEPT !.curr_progress = 0], modules, items, sid, 1)
    IN  IF loop_exit(prev_progress, st1.curr_progress) THEN st1
        ELSE run_loop(st1, modules, items, sid, next_progress(prev_progress, st1.curr_progress))

\* the symbols installed and the imports resolved by the loop of scope_id
\* when its import statements are taken in the order `order`
LoopOutcome(order) ==
    LET its == [t \in DOMAIN import_tasks |-> import_tasks[order[t]]]
        st == run_loop([Pass2State EXCEPT !.import_tasks = its], ctx_modules, ctx_items,
                       scope_id, 0)
    IN  [symbols |-> st.scopes[scope_id + 1].symbols,
         resolved |-> {st.import_tasks[t].idx : t \in {u \in DOMAIN its : st.import_tasks[u].resolved}}]

\* the orders of the import statements of a scope
Orders(n) == {f \in [1 .. n -> 1 .. n] : \A i \in 1 .. n : \A j \in 1 .. n : f[i] = f[j] => i = j}

\* the import at declaration idx of scope sid was reported by
\* `report unresolved paths`
LeftUnresolved(sid, idx) ==
    \E k \in 1 .. Len(reports) :
        /\ reports[k].message = "module not found"
        /\ reports[k].src # None
        /\ reports[k].src[1].scope = sid
        /\ reports[k].src[1].decl = idx
        /\ k = Len(reports) \/ reports[k + 1].sev # "info"

\* how far the module path of an import resolves against the tables as
\* they stand
PathStatus(sid, idx) ==
    LET decl == ast[ctx_scopes[sid + 1].module][idx]
        scope == ctx_scopes[sid + 1]
    IN  IF decl.path_kind = "Super" /\ scope.parent_id = None THEN "failed"
        ELSE resolve_module_path(Pass2State, ctx_modules, ctx_items, sid, idx, decl.names,
                 IF decl.path_kind = "None" THEN sid
                 ELSE IF decl.path_kind = "Super" THEN scope.parent_id[1] ELSE 0).status

\* C9: when import resolution has finished, an import is left unresolved
\* only if its module path cannot be resolved against the final symbol
\* tables, and the imports resolved and the symbols installed in a scope do
\* not depend on the order of its import statements.
C9_FixedPointAnyOrder ==
    /\ pc = "pass_3" =>
          \A sid \in 0 .. Len(ctx_scopes) - 1 :
          \A idx \in DOMAIN ast[ctx_scopes[sid + 1].module] :
              LeftUnresolved(sid, idx) => PathStatus(sid, idx) = "unresolved"
    /\ (pc = "pass_2_loop" /\ iterations = 0) =>
          \A order \in Orders(Len(import_tasks)) :
              LoopOutcome(order) = LoopOutcome([t \in DOMAIN import_tasks |-> t])

\* the item a symbol id names
SymbolData(symbol_id) ==
    IF symbol_id.kind = "Module" THEN ctx_modules[symbol_id.id + 1]
    ELSE ctx_items[symbol_id.kind][symbol_id.id + 1]

\* the entry add_imported_symbol makes for a symbol id
ImportedEntry(symbol_id) == [kind |-> symbol_id.kind, id |-> symbol_id.id, imported |-> TRUE]

\* C10: no scope holds an imported private symbol that was declared outside
\* the root scope; an import of a private symbol from a non-root scope is
\* reported as 'symbol is private' and installs nothing; every other symbol
\* found, private symbols of the root scope included, is installed under
\* its alias if it has one and under its own name otherwise (unless that
\* name is already bound in the importing scope); an aliased symbol is bound
\* under its own name only by another import of it under that name.
C10_PrivateOnlyFromRoot ==
    /\ \A s \in 1 .. Len(ctx_scopes) : \A n \in DOMAIN ctx_scopes[s].symbols :
          LET entry == ctx_scopes[s].symbols[n]
              data == SymbolData([kind |-> entry.kind, id |-> entry.id])
          IN  entry.imported => (data.decl.vis = Public \/ data.from_id = 0)
    /\ \A i \in 1 .. Len(sym_log) :
          LET e == sym_log[i]
              symbols == ctx_scopes[e.scope_id + 1].symbols
              installed == import_name(e)
          IN  e.found # None =>
                  IF e.private /\ e.from_id # 0
                  THEN /\ \E k \in e.first + 1 .. e.last : reports[k].message = "symbol is private"
                       /\ \A n \in DOMAIN symbols : symbols[n] # ImportedEntry(e.found[1])
                  ELSE ~e.bound =>
                          /\ installed \in DOMAIN symbols
                          /\ symbols[installed] = ImportedEntry(e.found[1])
                          /\ (/\ e.alias # None /\ e.alias[1] # e.name
                              /\ e.name \in DOMAIN symbols
                              /\ symbols[e.name] = ImportedEntry(e.found[1]))
                             => \E j \in 1 .. Len(sym_log) :
                                    /\ sym_log[j].scope_id = e.scope_id
                                    /\ sym_log[j].found = e.found
                                    /\ import_name(sym_log[j]) = e.name

\* a private procedure of the root scope was installed in another scope
\* under an alias, and a private procedure of a non-root scope was refused
C10_Witness ==
    /\ \E i \in 1 .. Len(sym_log) :
          LET e == sym_log[i]
          IN  /\ e.found # None /\ e.private /\ e.from_id = 0 /\ e.scope_id # 0
              /\ e.alias # None /\ ~e.bound
              /\ ctx_scopes[e.scope_id + 1].symbols[e.alias[1]] = ImportedEntry(e.found[1])
    /\ \E i \in 1 .. Len(sym_log) :
          LET e == sym_log[i]
          IN  e.found # None /\ e.private /\ e.from_id # 0

\* the diagnostics that give an import up or report it unresolved
PathFailures ==
    {"cannot use super from the root module", "module not found",
     "module file is missing as reported earlier", "importing from self is redundant"}

\* the positions in the report buffer of the path diagnostics of the import
\* at declaration idx of scope sid
PathReports(sid, idx, messages) ==
    {k \in 1 .. Len(reports) :
        /\ reports[k].sev = "error"
        /\ reports[k].message \in messages
        /\ reports[k].src # None
        /\ reports[k].src[1].scope = sid
        /\ reports[k].src[1].decl = idx}

\* the import statements of scope sid, as declaration indexes
ImportsOf(sid) ==
    LET decls == ast[ctx_scopes[sid + 1].module]
    IN  {idx \in DOMAIN decls : decls[idx].k = "Use"}

\* the loop and the report of the scope before scope_id have finished
ScopeReported == pc \in {"pass_2", "pass_3"} /\ scope_id >= 1 /\ iterations >= 1

\* C11: every import statement yields at most one path diagnostic over all
\* iterations of the loop and the report after it, its symbols are collected
\* at most once, and every import still unresolved after the loop has
\* exactly one 'module not found' diagnostic.
C11_ImportReportedOnce ==
    /\ \A sid \in 0 .. Len(ctx_scopes) - 1 : \A idx \in ImportsOf(sid) :
          /\ Cardinality(PathReports(sid, idx, PathFailures)) <= 1
          /\ Cardinality({i \in 1 .. Len(sym_log) :
                             sym_log[i].scope_id = sid /\ sym_log[i].decl = idx})
                <= Len(ast[ctx_scopes[sid + 1].module][idx].symbols)
    /\ ScopeReported =>
          \A t \in DOMAIN import_tasks :
              ~import_tasks[t].resolved =>
                  Cardinality(PathReports(scope_id - 1, import_tasks[t].idx,
                                          {"module not found"})) = 1

\* a scope whose loop ran twice is done: one import was given up inside the
\* loop with a diagnostic, another is still unresolved and reported
C11_Witness ==
    /\ ScopeReported
    /\ iterations >= 2
    /\ \E t \in DOMAIN import_tasks :
          /\ import_tasks[t].resolved
          /\ PathReports(scope_id - 1, import_tasks[t].idx, PathFailures) # {}
    /\ \E t \in DOMAIN import_tasks :
          /\ ~import_tasks[t].resolved
          /\ PathReports(scope_id - 1, import_tasks[t].idx, {"module not found"}) # {}

\* ------------------------------------------------------------------------
\* HirEmit (hir_build.rs:407-432): the diagnostics buffer of hir_lower and
\* the gate at the end of hir_lower::check
\* ------------------------------------------------------------------------

\* number of diagnostics recorded through HirEmit::error in one run
MaxErrors == 4

\* hir.src(origin_id, range): the source location of a diagnostic, kept as
\* the position of the item in its module and the path of the node inside
\* the item; pass is history, the pass that recorded the diagnostic
Src(pass, item, path) == [pass |-> pass, item |-> item, path |-> path]

\* ErrorComp::error(message).context(src)
ErrorComp_error(message, src) ==
    [severity |-> "error", message |-> message, src |-> src]

\* ErrorComp::warning(message).context(src)
ErrorComp_warning(message, src) ==
    [severity |-> "warning", message |-> message, src |-> src]

\* the ErrorComp passed to typecheck_todo's hb.error
TodoWarning ==
    ErrorComp_warning("this expression is not yet typechecked", Src("pass_5", 1, <<>>))

\* the diagnostics handed to HirEmit::error by the callers of the buffer
EmitDiagnostics ==
    { ErrorComp_error("type mismatch", Src("pass_5", 1, <<>>)),
      ErrorComp_error("defer statement cannot be nested", Src("pass_5", 1, <<>>)),
      TodoWarning }

\* HirEmit::error: push
HirEmit_error(self_errors, e) == Append(self_errors, e)

\* HirEmit::emit: Ok(hir) when nothing was recorded, Err(errors) otherwise
HirEmit_emit(self_errors) ==
    IF self_errors = <<>>
    THEN [ok |-> TRUE, errors |-> <<>>]
    ELSE [ok |-> FALSE, errors |-> self_errors]

\* HirEmit::new
EmitInit ==
    /\ InternIdle
    /\ HirIdle
    /\ CheckIdle
    /\ LowerIdle
    /\ MoreIdle

\* a caller records one diagnostic
EmitError ==
    /\ emitted = None
    /\ Len(errors) < MaxErrors
    /\ \E e \in EmitDiagnostics : errors' = HirEmit_error(errors, e)
    /\ UNCHANGED <<lower_ast, lpc, emitted, passes_run>>
    /\ UNCHANGED <<internVars, hirVars, checkVars, moreVars>>

\* emit.emit(hir), which consumes the buffer
EmitEmit ==
    /\ emitted = None
    /\ emitted' = Some(HirEmit_emit(errors))
    /\ UNCHANGED <<lower_ast, lpc, errors, passes_run>>
    /\ UNCHANGED <<internVars, hirVars, checkVars, moreVars>>

EmitNext ==
    \/ EmitError
    \/ EmitEmit

SpecEmit == EmitInit /\ [][EmitNext]_vars

\* the recorded diagnostics of error severity
ErrorSeverityOf(self_errors) ==
    {k \in 1 .. Len(self_errors) : self_errors[k].severity = "error"}

\* C12: emit returns Err carrying every recorded diagnostic in recording
\* order when at least one diagnostic of error severity was recorded, and
\* the HIR otherwise; warnings alone never prevent the HIR from being
\* returned.
C12_EmitGatesOnErrorSeverity ==
    emitted # None =>
        /\ emitted[1].ok <=> (ErrorSeverityOf(errors) = {})
        /\ ~emitted[1].ok => emitted[1].errors = errors

\* what emit does: Err with the whole buffer whenever the buffer is not empty
EmitGatesOnEmptyBuffer ==
    emitted # None =>
        /\ emitted[1].ok <=> (errors = <<>>)
        /\ ~emitted[1].ok => emitted[1].errors = errors

\* a run that recorded warnings only and was refused the HIR
C12_WarningOnlyRefused ==
    /\ emitted # None
    /\ errors # <<>>
    /\ ErrorSeverityOf(errors) = {}
    /\ ~emitted[1].ok

\* ------------------------------------------------------------------------
\* The items of a module as hir_lower sees them (hir_build.rs:11-30): each
\* kind has its own table, filled in source order, and an item's ID is its
\* position in the table of its kind.
\* ------------------------------------------------------------------------

\* number of items of one module
MaxItems == 2

\* the kinds pass_3::run walks, in the order of its loops
Pass3Kinds == <<"proc", "enum", "union", "struct", "const", "global">>

\* the names of the parameters, variants, members or fields of one item:
\* no name twice, one name twice, one name three times
ItemNames == { <<"a", "b">>, <<"a", "a">>, <<"a", "b", "a", "a">> }

\* an item without a body: a proc declared with the c_call directive, an
\* enum, union or struct with its names, a const or global
BodylessItem(kind, names) ==
    [kind |-> kind, names |-> names, return_ty |-> None, block |-> None,
     directive_tail |-> IF kind = "proc" THEN Some("c_call") ELSE None]

BodylessItems ==
    {BodylessItem(kind, names) : kind \in {"proc", "enum", "union", "struct"}, names \in ItemNames}
        \cup {BodylessItem(kind, <<>>) : kind \in {"const", "global"}}

\* modules of up to MaxItems items without bodies
ItemPrograms == UNION {[1 .. n -> BodylessItems] : n \in 0 .. MaxItems}

\* hir.proc_ids(), enum_ids(), ...: the items of one kind in ID order,
\* given by their positions in the module
RECURSIVE ids_of_kind(_, _, _)
ids_of_kind(items, kind, from) ==
    IF from > Len(items) THEN <<>>
    ELSE (IF items[from].kind = kind THEN <<from>> ELSE <<>>)
            \o ids_of_kind(items, kind, from + 1)

\* ------------------------------------------------------------------------
\* pass_3 (pass_3.rs): processes the data of every item, kind by kind
\* ------------------------------------------------------------------------

\* the message of process_*_data for a name of the item that is already in
\* unique (the name itself is given by the location)
Pass3Message(kind) ==
    CASE kind = "proc" -> "parameter is defined multiple times"
      [] kind = "enum" -> "variant is defined multiple times"
      [] kind = "union" -> "member is defined multiple times"
      [] kind = "struct" -> "field is defined multiple times"
      [] OTHER -> ""

\* the note that goes with it
Pass3Existing(kind) ==
    CASE kind = "proc" -> "existing parameter"
      [] kind = "enum" -> "existing variant"
      [] kind = "union" -> "existing member"
      [] kind = "struct" -> "existing field"
      [] OTHER -> ""

\* ErrorComp::context_info: the diagnostic with a note at a second location
ErrorComp_context_info(error, message, src) ==
    [severity |-> error.severity, message |-> error.message, src |-> error.src,
     info |-> [message |-> message, src |-> src]]

\* unique.iter().find(|&it| it.name.id == name.id)
find_unique(unique, name) ==
    LET hits == {i \in 1 .. Len(unique) : unique[i].name = name}
    IN  IF hits = {} THEN None
        ELSE Some(unique[CHOOSE i \in hits : \A j \in hits : i <= j])

\* unique.push(..), the variant that puts the entry in front first
push_unique_front(unique, entry) == <<entry>> \o unique

push_unique(unique, entry) == Append(unique, entry)

\* the loop of process_proc_data, process_enum_data, process_union_data and
\* process_struct_data over the names of the item, from name k on: a name
\* already in unique gets one diagnostic at its place with a note at the
\* place of the entry of unique, any other name is pushed to unique; the
\* diagnostics and unique, which becomes the lowered list, are handed back
RECURSIVE process_names(_, _, _, _, _, _)
process_names(self_errors, kind, id, names, unique, k) ==
    IF k > Len(names) THEN [errors |-> self_errors, unique |-> unique]
    ELSE LET existing == find_unique(unique, names[k])
         IN  IF existing # None
             THEN process_names(
                      HirEmit_error(self_errors,
                          ErrorComp_context_info(
                              ErrorComp_error(Pass3Message(kind), Src("pass_3", id, <<k>>)),
                              Pass3Existing(kind),
                              Src("pass_3", id, <<existing[1].range>>))),
                      kind, id, names, unique, k + 1)
             ELSE process_names(self_errors, kind, id, names,
                                push_unique(unique, [name |-> names[k], range |-> k]),
                                k + 1)

\* process_proc_data, process_enum_data, process_union_data,
\* process_struct_data: the diagnostics of the names of the item;
\* process_const_data and process_global_data record nothing
process_item_data(self_errors, items, id, k) ==
    LET item == items[id] IN
    IF item.kind \in {"const", "global"} THEN self_errors
    ELSE process_names(self_errors, item.kind, id, item.names, <<>>, k).errors

\* one loop of pass_3::run over the IDs of a kind
RECURSIVE pass_3_loop(_, _, _, _)
pass_3_loop(self_errors, items, ids, n) ==
    IF n > Len(ids) THEN self_errors
    ELSE pass_3_loop(process_item_data(self_errors, items, ids[n], 1), items, ids, n + 1)

\* pass_3::run: the six loops, one kind after the other
RECURSIVE pass_3_run(_, _, _)
pass_3_run(self_errors, items, kind_no) ==
    IF kind_no > Len(Pass3Kinds) THEN self_errors
    ELSE pass_3_run(pass_3_loop(self_errors, items, ids_of_kind(items, Pass3Kinds[kind_no], 1), 1),
                    items, kind_no + 1)

\* ------------------------------------------------------------------------
\* pass_5 (pass_5.rs): types, block flags and the expressions it checks
\* ------------------------------------------------------------------------

\* hir::Type: Error, Basic(BasicType), Struct(id), ArraySlice { mutt, ty }
\* (Enum, Union and Reference are not produced by the inputs below)
Type_Error == [tag |-> "Error"]
Type_Basic(basic) == [tag |-> "Basic", basic |-> basic]
Type_Struct(id) == [tag |-> "Struct", id |-> id]
Type_ArraySlice(mutt, ty) == [tag |-> "ArraySlice", mutt |-> mutt, ty |-> ty]

\* hir::Type::ArrayStatic { size, ty } (resolve_type_instant) and
\* ArrayStaticDecl { size, ty } (resolve_type_delayed): the two lowerings of
\* a static array type
Type_ArrayStatic(size, ty) == [tag |-> "ArrayStatic", size |-> size, ty |-> ty]
Type_ArrayStaticDecl(size, ty) == [tag |-> "ArrayStaticDecl", size |-> size, ty |-> ty]

\* ast::BasicType
IntegerTypes == {"s8", "s16", "s32", "s64", "ssize", "u8", "u16", "u32", "u64", "usize"}
FloatTypes == {"f32", "f64"}
BasicTypes == {"unit", "bool", "char", "rawptr"} \cup IntegerTypes \cup FloatTypes

\* type_matches
RECURSIVE type_matches(_, _)
type_matches(ty, ty2) ==
    CASE ty.tag = "Error" -> TRUE
      [] ty2.tag = "Error" -> TRUE
      [] ty.tag = "Basic" /\ ty2.tag = "Basic" -> ty.basic = ty2.basic
      [] ty.tag = "Struct" /\ ty2.tag = "Struct" -> ty.id = ty2.id
      [] ty.tag = "ArraySlice" /\ ty2.tag = "ArraySlice" ->
            ty.mutt = ty2.mutt /\ type_matches(ty.ty, ty2.ty)
      [] ty.tag = "ArrayStatic" /\ ty2.tag = "ArrayStatic" -> type_matches(ty.ty, ty2.ty)
      [] ty.tag = "ArrayStaticDecl" /\ ty2.tag = "ArrayStaticDecl" -> type_matches(ty.ty, ty2.ty)
      [] OTHER -> FALSE

\* BlockFlags::from_root, enter_loop, enter_defer
BlockFlags_from_root == [in_loop |-> FALSE, in_defer |-> FALSE]
enter_loop(self) == [in_loop |-> TRUE, in_defer |-> self.in_defer]

enter_defer(self) == [in_loop |-> self.in_loop, in_defer |-> TRUE]

\* ast::Expr by kind; Placeholder stands for the kinds typecheck_expr_2
\* sends to typecheck_placeholder (Sizeof, Item, ProcCall, StructInit,
\* ArrayInit, ArrayRepeat, UnaryExpr, BinaryExpr)
Expr_Leaf(kind) == [kind |-> kind]
Expr_If(block) == [kind |-> "If", block |-> block]
Expr_Block(stmts) == [kind |-> "Block", stmts |-> stmts]
Expr_Match(on_expr, arms) == [kind |-> "Match", on_expr |-> on_expr, arms |-> arms]
Expr_Cast(target, ty) == [kind |-> "Cast", target |-> target, ty |-> ty]
MatchArm(pat, expr) == [pat |-> pat, expr |-> expr]

\* ast::Stmt by kind
Stmt_Break == [kind |-> "Break"]
Stmt_Continue == [kind |-> "Continue"]
Stmt_Return == [kind |-> "Return"]
Stmt_Defer(block) == [kind |-> "Defer", block |-> block]
Stmt_ForLoop(block) == [kind |-> "ForLoop", block |-> block]
Stmt_ExprSemi(expr) == [kind |-> "ExprSemi", expr |-> expr]
Stmt_ExprTail(expr) == [kind |-> "ExprTail", expr |-> expr]

\* TypeResult, with the diagnostics buffer after the check
TypeResult(ty, self_errors) == [ty |-> ty, errors |-> self_errors]

\* typecheck_placeholder
typecheck_placeholder(self_errors) == TypeResult(Type_Error, self_errors)

\* typecheck_lit_int that always takes the default
typecheck_lit_int_default(expect_ty) == Type_Basic("s32")
\* typecheck_lit_int: the type chosen for the literal
typecheck_lit_int(expect_ty) ==
    IF expect_ty.tag = "Basic" /\ expect_ty.basic \in IntegerTypes
    THEN Type_Basic(expect_ty.basic)
    ELSE Type_Basic("s32")

\* typecheck_lit_float: the type chosen for the literal
typecheck_lit_float(expect_ty) ==
    IF expect_ty.tag = "Basic" /\ expect_ty.basic \in FloatTypes
    THEN Type_Basic(expect_ty.basic)
    ELSE Type_Basic("f64")

\* typecheck_lit_string: a slice of u8
typecheck_lit_string == Type_ArraySlice("Immutable", Type_Basic("u8"))

\* typecheck_stmt_break
typecheck_stmt_break(self_errors, id, path, block_flags) ==
    IF ~block_flags.in_loop
    THEN HirEmit_error(self_errors,
             ErrorComp_error("cannot use break outside of a loop", Src("pass_5", id, path)))
    ELSE self_errors

\* typecheck_stmt_continue
typecheck_stmt_continue(self_errors, id, path, block_flags) ==
    IF ~block_flags.in_loop
    THEN HirEmit_error(self_errors,
             ErrorComp_error("cannot use continue outside of a loop", Src("pass_5", id, path)))
    ELSE self_errors

\* the cast check of typecheck_cast on the target's type and the cast type
cast_rejected(target_ty, cast_ty) ==
    CASE target_ty.tag = "Error" -> FALSE
      [] cast_ty.tag = "Error" -> FALSE
      [] target_ty.tag = "Basic" /\ cast_ty.tag = "Basic" -> FALSE
      [] OTHER -> TRUE

RECURSIVE typecheck_expr_2(_, _, _, _, _, _)
RECURSIVE typecheck_block(_, _, _, _, _, _, _)
RECURSIVE typecheck_block_stmt(_, _, _, _, _, _)
RECURSIVE typecheck_stmt_defer(_, _, _, _, _)
RECURSIVE typecheck_match(_, _, _, _, _)
RECURSIVE typecheck_match_arms(_, _, _, _, _, _, _)
RECURSIVE typecheck_cast(_, _, _, _, _)

\* typecheck_expr_2: the check by kind, then the comparison with the
\* expected type (the message also names the two types)
typecheck_expr_2(self_errors, id, path, block_flags, expect_ty, expr) ==
    LET type_result ==
            CASE expr.kind = "Unit" -> TypeResult(Type_Basic("unit"), self_errors)
              [] expr.kind = "LitNull" -> TypeResult(Type_Basic("rawptr"), self_errors)
              [] expr.kind = "LitBool" -> TypeResult(Type_Basic("bool"), self_errors)
              [] expr.kind = "LitInt" -> TypeResult(typecheck_lit_int(expect_ty), self_errors)
              [] expr.kind = "LitFloat" -> TypeResult(typecheck_lit_float(expect_ty), self_errors)
              [] expr.kind = "LitChar" -> TypeResult(Type_Basic("char"), self_errors)
              [] expr.kind = "LitString" -> TypeResult(typecheck_lit_string, self_errors)
              [] expr.kind = "If" -> typecheck_placeholder(self_errors)
              [] expr.kind = "Block" ->
                    typecheck_block(self_errors, id, path, block_flags, expect_ty, expr.stmts, 1)
              [] expr.kind = "Match" -> typecheck_match(self_errors, id, path, block_flags, expr)
              [] expr.kind = "Cast" -> typecheck_cast(self_errors, id, path, block_flags, expr)
              [] OTHER -> typecheck_placeholder(self_errors)
    IN  IF ~type_matches(expect_ty, type_result.ty)
        THEN TypeResult(type_result.ty,
                 HirEmit_error(type_result.errors,
                     ErrorComp_error("type mismatch", Src("pass_5", id, path))))
        ELSE type_result

\* typecheck_match: the matched expression without expectation, every
\* pattern against its type; the arms' expressions are not checked
typecheck_match(self_errors, id, path, block_flags, expr) ==
    LET on_res == typecheck_expr_2(self_errors, id, path \o <<1>>, block_flags, Type_Error, expr.on_expr)
    IN  typecheck_placeholder(
            typecheck_match_arms(on_res.errors, id, path, block_flags, on_res.ty, expr.arms, 1))

\* the loop over the arms of typecheck_match
typecheck_match_arms(self_errors, id, path, block_flags, on_ty, arms, n) ==
    IF n > Len(arms) THEN self_errors
    ELSE LET after ==
                 IF arms[n].pat # None
                 THEN typecheck_expr_2(self_errors, id, path \o <<2 * n>>, block_flags, on_ty,
                                       arms[n].pat[1]).errors
                 ELSE self_errors
         IN  typecheck_match_arms(after, id, path, block_flags, on_ty, arms, n + 1)

\* typecheck_cast: the target without expectation, then the check of the
\* pair; the result type is the cast type
typecheck_cast(self_errors, id, path, block_flags, expr) ==
    LET target_res == typecheck_expr_2(self_errors, id, path \o <<1>>, block_flags, Type_Error, expr.target)
        cast_ty == expr.ty
    IN  TypeResult(cast_ty,
            IF cast_rejected(target_res.ty, cast_ty)
            THEN HirEmit_error(target_res.errors,
                     ErrorComp_error("non privitive cast", Src("pass_5", id, path)))
            ELSE target_res.errors)

\* typecheck_block: every statement in order; the result type is unit
typecheck_block(self_errors, id, path, block_flags, expect_ty, stmts, n) ==
    IF n > Len(stmts) THEN TypeResult(Type_Basic("unit"), self_errors)
    ELSE typecheck_block(
             typecheck_block_stmt(self_errors, id, path \o <<n>>, block_flags, expect_ty, stmts[n]),
             id, path, block_flags, expect_ty, stmts, n + 1)

\* the match on stmt.kind inside the loop of typecheck_block
typecheck_block_stmt(self_errors, id, path, block_flags, expect_ty, stmt) ==
    CASE stmt.kind = "Break" -> typecheck_stmt_break(self_errors, id, path, block_flags)
      [] stmt.kind = "Continue" -> typecheck_stmt_continue(self_errors, id, path, block_flags)
      [] stmt.kind = "Return" -> self_errors
      [] stmt.kind = "Defer" -> typecheck_stmt_defer(self_errors, id, path, block_flags, stmt.block)
      [] stmt.kind = "ForLoop" -> self_errors
      [] stmt.kind = "ExprSemi" ->
            typecheck_expr_2(self_errors, id, path \o <<1>>, block_flags, Type_Error, stmt.expr).errors
      [] stmt.kind = "ExprTail" ->
            typecheck_expr_2(self_errors, id, path \o <<1>>, block_flags, expect_ty, stmt.expr).errors
      [] OTHER -> self_errors

\* typecheck_stmt_defer
typecheck_stmt_defer(self_errors, id, path, block_flags, block) ==
    LET after ==
            IF block_flags.in_defer
            THEN HirEmit_error(self_errors,
                     ErrorComp_error("defer statement cannot be nested", Src("pass_5", id, path)))
            ELSE self_errors
    IN  typecheck_expr_2(after, id, path \o <<1>>, enter_defer(block_flags),
                         Type_Basic("unit"), block).errors

\* process_proc_data: the return type of the proc data
proc_return_ty(item) ==
    IF item.return_ty = None THEN Type_Basic("unit") ELSE item.return_ty[1]

\* typecheck_proc: the body against the declared return type, or the
\* directive of a proc without a body
typecheck_proc(self_errors, items, id) ==
    LET decl == items[id] IN
    IF decl.block # None
    THEN typecheck_expr_2(self_errors, id, <<>>, BlockFlags_from_root, proc_return_ty(decl),
                          decl.block[1]).errors
    ELSE IF decl.directive_tail[1] # "c_call"
         THEN HirEmit_error(self_errors,
                  ErrorComp_error("expected a c_call directive", Src("pass_5", id, <<>>)))
         ELSE self_errors

\* pass_5::run: every proc in ID order
RECURSIVE pass_5_run(_, _, _, _)
pass_5_run(self_errors, items, ids, n) ==
    IF n > Len(ids) THEN self_errors
    ELSE pass_5_run(typecheck_proc(self_errors, items, ids[n]), items, ids, n + 1)

\* ------------------------------------------------------------------------
\* Procedure bodies given to pass_5: one statement, nested in up to
\* MaxNest enclosing constructs
\* ------------------------------------------------------------------------

\* number of constructs around the innermost statement of a body
MaxNest == 2

\* the constructs a statement can be nested in
Wrappers == {"block", "defer", "for", "if", "match"}

\* the statement that holds stmt inside the construct w: a tail block, a
\* defer block, the body of a for loop, the branch of an if, the arm of a
\* match on a bool
Wrap(w, stmt) ==
    CASE w = "block" -> Stmt_ExprTail(Expr_Block(<<stmt>>))
      [] w = "defer" -> Stmt_Defer(Expr_Block(<<stmt>>))
      [] w = "for" -> Stmt_ForLoop(Expr_Block(<<stmt>>))
      [] w = "if" -> Stmt_ExprSemi(Expr_If(Expr_Block(<<stmt>>)))
      [] w = "match" ->
            Stmt_ExprSemi(Expr_Match(Expr_Leaf("LitBool"),
                <<MatchArm(Some(Expr_Leaf("LitBool")), Expr_Block(<<stmt>>))>>))

\* the innermost statements: control statements, an empty defer, a tail
\* expression of every leaf kind, a literal used as a statement, a cast
\* between basic types and a cast of a string literal to s32
LeafStmts ==
    {Stmt_Break, Stmt_Continue, Stmt_Return, Stmt_Defer(Expr_Block(<<>>)),
     Stmt_ExprSemi(Expr_Leaf("LitInt")),
     Stmt_ExprTail(Expr_Cast(Expr_Leaf("LitBool"), Type_Basic("s32"))),
     Stmt_ExprTail(Expr_Cast(Expr_Leaf("LitString"), Type_Basic("s32")))}
        \cup {Stmt_ExprTail(Expr_Leaf(kind)) :
                kind \in {"Unit", "LitNull", "LitBool", "LitInt", "LitFloat", "LitChar",
                          "LitString", "Placeholder"}}

\* stmt nested in the constructs ws, the outermost first
RECURSIVE WrapAll(_, _)
WrapAll(ws, stmt) ==
    IF ws = <<>> THEN stmt ELSE Wrap(Head(ws), WrapAll(Tail(ws), stmt))

\* the declared return types: none, an unresolved one (Error), every basic
\* type, a struct and a slice
ReturnTypes ==
    {None, Some(Type_Error), Some(Type_Struct(0)), Some(typecheck_lit_string)}
        \cup {Some(Type_Basic(basic)) : basic \in BasicTypes}

\* a proc with a body of one statement
ProcItem(return_ty, stmt) ==
    [kind |-> "proc", names |-> <<"a", "b">>, return_ty |-> return_ty,
     block |-> Some(Expr_Block(<<stmt>>)), directive_tail |-> None]

\* modules of one proc: every return type with a body that is not nested,
\* no return type or s32 with a nested one
BodyPrograms ==
    {<<ProcItem(return_ty, stmt)>> : return_ty \in ReturnTypes, stmt \in LeafStmts}
        \cup {<<ProcItem(return_ty, WrapAll(ws, stmt))>> :
                return_ty \in {None, Some(Type_Basic("s32"))},
                ws \in SeqsUpTo(Wrappers, MaxNest) \ {<<>>},
                stmt \in LeafStmts}

\* ------------------------------------------------------------------------
\* hir_lower::check (mod.rs:14-26): the five passes, then emit
\* ------------------------------------------------------------------------

\* the modules given to hir_lower::check
LowerPrograms == ItemPrograms \cup BodyPrograms

\* the passes in the order of the calls
Passes == <<"pass_1", "pass_2", "pass_3", "pass_4", "pass_5">>

LowerInit ==
    /\ InternIdle
    /\ HirIdle
    /\ CheckIdle
    /\ LowerIdle
    /\ MoreIdle

\* the call: HirData::new(ast), HirEmit::new()
hir_lower_check ==
    /\ lpc = "idle"
    /\ \E program \in LowerPrograms : lower_ast' = program
    /\ lpc' = "pass_1"
    /\ UNCHANGED <<errors, emitted, passes_run>>
    /\ UNCHANGED <<internVars, hirVars, checkVars, moreVars>>

\* a pass that records nothing for the modules above, then the next call
SilentPass(pass, then) ==
    /\ lpc = pass
    /\ passes_run' = Append(passes_run, pass)
    /\ lpc' = then
    /\ UNCHANGED <<lower_ast, errors, emitted>>
    /\ UNCHANGED <<internVars, hirVars, checkVars, moreVars>>

\* pass_1::run: the items get their IDs in source order
LowerPass1 == SilentPass("pass_1", "pass_2")

\* pass_2::run
LowerPass2 == SilentPass("pass_2", "pass_3")

\* pass_3::run
LowerPass3 ==
    /\ lpc = "pass_3"
    /\ errors' = pass_3_run(errors, lower_ast, 1)
    /\ passes_run' = Append(passes_run, "pass_3")
    /\ lpc' = "pass_4"
    /\ UNCHANGED <<lower_ast, emitted>>
    /\ UNCHANGED <<internVars, hirVars, checkVars, moreVars>>

\* pass_4::run
LowerPass4 == SilentPass("pass_4", "pass_5")

\* pass_5::run
LowerPass5 ==
    /\ lpc = "pass_5"
    /\ errors' = pass_5_run(errors, lower_ast, ids_of_kind(lower_ast, "proc", 1), 1)
    /\ passes_run' = Append(passes_run, "pass_5")
    /\ lpc' = "emit"
    /\ UNCHANGED <<lower_ast, emitted>>
    /\ UNCHANGED <<internVars, hirVars, checkVars, moreVars>>

\* emit.emit(hir)
LowerEmit ==
    /\ lpc = "emit"
    /\ emitted' = Some(HirEmit_emit(errors))
    /\ lpc' = "done"
    /\ UNCHANGED <<lower_ast, errors, passes_run>>
    /\ UNCHANGED <<internVars, hirVars, checkVars, moreVars>>

LowerNext ==
    \/ hir_lower_check
    \/ LowerPass1
    \/ LowerPass2
    \/ LowerPass3
    \/ LowerPass4
    \/ LowerPass5
    \/ LowerEmit

SpecLower == LowerInit /\ [][LowerNext]_vars

\* the passes run so far are the first passes, each once and in order
PassesInOrder ==
    /\ Len(passes_run) <= Len(Passes)
    /\ \A k \in 1 .. Len(passes_run) : passes_run[k] = Passes[k]
    /\ lpc \in {"emit", "done"} => passes_run = Passes

\* the diagnostics of one pass follow the source order of their items
ItemsInSourceOrder ==
    \A j, k \in 1 .. Len(errors) :
        (j < k /\ errors[j].src.pass = errors[k].src.pass)
            => errors[j].src.item <= errors[k].src.item

\* C13: passes 1 to 5 each run exactly once in that order whatever was
\* recorded before, and within one pass every diagnostic about an item is
\* recorded before every diagnostic about an item that comes later in the
\* module, whatever the kinds of the two items.
C13_PassesOnceDiagnosticsInSourceOrder ==
    /\ PassesInOrder
    /\ ItemsInSourceOrder

\* a run of all passes after which pass_3 has recorded a diagnostic about a
\* later item before one about an earlier item
C13_LaterItemFirst ==
    /\ lpc = "done"
    /\ passes_run = Passes
    /\ \E j, k \in 1 .. Len(errors) :
        /\ j < k
        /\ errors[j].src.pass = "pass_3"
        /\ errors[k].src.pass = "pass_3"
        /\ errors[j].src.item > errors[k].src.item

\* ------------------------------------------------------------------------
\* Properties of pass_5: the statements of a body and where they stand
\* ------------------------------------------------------------------------

\* where a statement stands: inside the body of a loop, inside a defer
\* block, and inside a defer block through block expressions only
Lexical(in_loop, in_defer, defer_by_blocks) ==
    [in_loop |-> in_loop, in_defer |-> in_defer, defer_by_blocks |-> defer_by_blocks]

\* the statements of an expression and of a statement, each with its
\* location inside the item, its kind, the statement and where it stands
RECURSIVE StmtsOfExpr(_, _, _)
RECURSIVE StmtsOfStmt(_, _, _)
StmtsOfExpr(expr, path, lex) ==
    CASE expr.kind = "Block" ->
            UNION {StmtsOfStmt(expr.stmts[n], path \o <<n>>, lex) : n \in 1 .. Len(expr.stmts)}
      [] expr.kind = "If" ->
            StmtsOfExpr(expr.block, path \o <<1>>, Lexical(lex.in_loop, lex.in_defer, FALSE))
      [] expr.kind = "Match" ->
            UNION {StmtsOfExpr(expr.arms[n].expr, path \o <<2 * n + 1>>,
                               Lexical(lex.in_loop, lex.in_defer, FALSE)) :
                       n \in 1 .. Len(expr.arms)}
      [] expr.kind = "Cast" ->
            StmtsOfExpr(expr.target, path \o <<1>>, Lexical(lex.in_loop, lex.in_defer, FALSE))
      [] OTHER -> {}

StmtsOfStmt(stmt, path, lex) ==
    {[path |-> path, kind |-> stmt.kind, stmt |-> stmt, lex |-> lex]}
        \cup CASE stmt.kind = "Defer" ->
                    StmtsOfExpr(stmt.block, path \o <<1>>, Lexical(lex.in_loop, TRUE, TRUE))
               [] stmt.kind = "ForLoop" ->
                    StmtsOfExpr(stmt.block, path \o <<1>>, Lexical(TRUE, lex.in_defer, FALSE))
               [] stmt.kind \in {"ExprSemi", "ExprTail"} ->
                    StmtsOfExpr(stmt.expr, path \o <<1>>, lex)
               [] OTHER -> {}

\* the statements of the body of the proc at position id of the module
BodyStmts(id) ==
    IF lower_ast[id].kind = "proc" /\ lower_ast[id].block # None
    THEN StmtsOfExpr(lower_ast[id].block[1], <<>>, Lexical(FALSE, FALSE, FALSE))
    ELSE {}

\* the diagnostics pass_5 recorded with this message at this location
Recorded(message, id, path) ==
    {k \in 1 .. Len(errors) :
        /\ errors[k].message = message
        /\ errors[k].src = Src("pass_5", id, path)}

\* pass_5 has run
Pass5Done == lpc \in {"emit", "done"}

\* C15: checking a procedure body records that break / continue cannot be
\* used outside of a loop for a break or continue statement if and only if
\* the statement is not inside the body of a loop of the procedure,
\* wherever it is nested (blocks, if branches, match arms, defer blocks).
C15_BreakContinueIffOutsideLoop ==
    Pass5Done =>
        \A id \in 1 .. Len(lower_ast) : \A node \in BodyStmts(id) :
            /\ node.kind = "Break" =>
                  (Recorded("cannot use break outside of a loop", id, node.path) # {}
                      <=> ~node.lex.in_loop)
            /\ node.kind = "Continue" =>
                  (Recorded("cannot use continue outside of a loop", id, node.path) # {}
                      <=> ~node.lex.in_loop)

\* C16: checking a procedure body records that return cannot be used
\* inside the defer block for every return statement inside a defer block
\* and for no return statement outside every defer block.
C16_ReturnInDeferRejected ==
    Pass5Done =>
        \A id \in 1 .. Len(lower_ast) : \A node \in BodyStmts(id) :
            node.kind = "Return" =>
                (Recorded("cannot use return inside the defer block", id, node.path) # {}
                    <=> node.lex.in_defer)

\* C17: a defer statement inside the block of another defer, directly or
\* inside nested block expressions, records exactly one diagnostic that
\* defer cannot be nested, and a defer that is not inside another defer
\* records none.
C17_NestedDeferRejectedOnce ==
    Pass5Done =>
        \A id \in 1 .. Len(lower_ast) : \A node \in BodyStmts(id) :
            node.kind = "Defer" =>
                /\ node.lex.defer_by_blocks =>
                      Cardinality(Recorded("defer statement cannot be nested", id, node.path)) = 1
                /\ ~node.lex.in_defer =>
                      Recorded("defer statement cannot be nested", id, node.path) = {}

\* the location of the block a statement belongs to
BlockOf(path) == SubSeq(path, 1, Len(path) - 1)

\* the tail expressions of the body, each with its statement node
TailStmts(id) == {node \in BodyStmts(id) : node.kind = "ExprTail"}

\* C18: each ill-typed expression yields exactly one diagnostic: when a
\* check fails the result type is error and nothing around the expression
\* records a further type mismatch for the same fault; a mismatching tail
\* expression is not reported a second time for its block, and a rejected
\* cast has the result type error, so it is not reported as a mismatch too.
C18_OneDiagnosticPerFault ==
    Pass5Done =>
        \A id \in 1 .. Len(lower_ast) : \A node \in TailStmts(id) :
            /\ Recorded("type mismatch", id, node.path \o <<1>>) # {}
                  => Recorded("type mismatch", id, BlockOf(node.path)) = {}
            /\ Recorded("non privitive cast", id, node.path \o <<1>>) # {}
                  => Recorded("type mismatch", id, node.path \o <<1>>) = {}

\* the statements directly in the body of a proc, with the type expected of
\* their expression: the return type for the tail, none for a statement
RootExprStmts(id) ==
    {node \in BodyStmts(id) : Len(node.path) = 1 /\ node.kind \in {"ExprTail", "ExprSemi"}}

ExpectedOf(id, node) ==
    IF node.kind = "ExprTail" THEN proc_return_ty(lower_ast[id]) ELSE Type_Error

\* the result of the check of the expression of such a statement
CheckedAt(id, node) ==
    typecheck_expr_2(<<>>, id, node.path \o <<1>>, BlockFlags_from_root,
                     ExpectedOf(id, node), node.stmt.expr)

\* C19: the type of a block is the type of its tail expression if it has
\* one and unit otherwise, so a block whose tail expression has the
\* expected type, which is not unit, is accepted without a type mismatch.
C19_BlockHasTypeOfTail ==
    Pass5Done =>
        \A id \in 1 .. Len(lower_ast) : \A node \in RootExprStmts(id) :
            LET expect == ExpectedOf(id, node) IN
            (/\ node.kind = "ExprTail"
             /\ expect.tag = "Basic"
             /\ expect.basic # "unit"
             /\ CheckedAt(id, node).ty = expect)
                => Recorded("type mismatch", id, <<>>) = {}

\* the type the literal takes under the expected type
ChosenInt(expect) ==
    IF expect.tag = "Basic" /\ expect.basic \in IntegerTypes THEN expect ELSE Type_Basic("s32")

ChosenFloat(expect) ==
    IF expect.tag = "Basic" /\ expect.basic \in {"f32", "f64"} THEN expect ELSE Type_Basic("f64")

\* C20: checking an integer literal returns the expected type when that is
\* one of the ten integer basic types and s32 for every other expected
\* type; checking a float literal returns the expected type when it is f32
\* or f64 and f64 otherwise; a type mismatch is recorded exactly when the
\* chosen type does not match the expected type.
C20_LiteralTakesExpectedType ==
    Pass5Done =>
        \A id \in 1 .. Len(lower_ast) : \A node \in RootExprStmts(id) :
            node.stmt.expr.kind \in {"LitInt", "LitFloat"} =>
                LET expect == ExpectedOf(id, node)
                    chosen == IF node.stmt.expr.kind = "LitInt"
                              THEN ChosenInt(expect)
                              ELSE ChosenFloat(expect)
                IN  /\ CheckedAt(id, node).ty = chosen
                    /\ Recorded("type mismatch", id, node.path \o <<1>>) # {}
                          <=> (expect.tag # "Error" /\ expect # chosen)

\* an integer literal at the end of a body took the expected type u8 and
\* was accepted
C20_Witness ==
    /\ Pass5Done
    /\ \E id \in 1 .. Len(lower_ast) : \E node \in RootExprStmts(id) :
        /\ node.kind = "ExprTail"
        /\ node.stmt.expr.kind = "LitInt"
        /\ ExpectedOf(id, node) = Type_Basic("u8")
        /\ CheckedAt(id, node).ty = Type_Basic("u8")
        /\ Recorded("type mismatch", id, node.path \o <<1>>) = {}

\* ------------------------------------------------------------------------
\* type_matches (pass_5.rs:191-218) on static array types
\* ------------------------------------------------------------------------

\* the largest length of a static array
MaxArrayLen == 2

\* element types without arrays
ScalarTypes == {Type_Error, Type_Basic("s32"), Type_Basic("bool")}

\* the static array types over a set of element types, in both lowerings
StaticArraysOf(elems) ==
    {Type_ArrayStatic(size, ty) : size \in 1 .. MaxArrayLen, ty \in elems}
        \cup {Type_ArrayStaticDecl(size, ty) : size \in 1 .. MaxArrayLen, ty \in elems}

\* the types compared: scalars, arrays of scalars, arrays of arrays
MatchTypes ==
    ScalarTypes \cup StaticArraysOf(ScalarTypes)
        \cup StaticArraysOf(StaticArraysOf({Type_Basic("s32"), Type_Basic("bool")}))

TypeMatchesInit ==
    /\ InternIdle
    /\ HirIdle
    /\ CheckIdle
    /\ LowerIdle
    /\ MoreIdle

\* one call type_matches(ty, ty2)
call_type_matches ==
    /\ fn_args = None
    /\ \E ty \in MatchTypes : \E ty2 \in MatchTypes :
        /\ fn_args' = Some(<<ty, ty2>>)
        /\ fn_result' = Some(type_matches(ty, ty2))
    /\ UNCHANGED notFn

TypeMatchesNext ==
    \/ call_type_matches

SpecTypeMatches == TypeMatchesInit /\ [][TypeMatchesNext]_vars

\* a static array type, in either lowering
IsStaticArray(ty) == ty.tag \in {"ArrayStatic", "ArrayStaticDecl"}

\* C21: type_matches treats two static array types as equal exactly when
\* their element types match, whatever the lengths and whichever way each
\* of the two was lowered (ArrayStatic or ArrayStaticDecl).
C21_StaticArraysByElement ==
    fn_args # None =>
        LET ty == fn_args[1][1]
            ty2 == fn_args[1][2]
        IN  (IsStaticArray(ty) /\ IsStaticArray(ty2))
                => (fn_result[1] <=> type_matches(ty.ty, ty2.ty))

(***************************************************************************)
(* ProcScope of src/src/check/check.rs: the locals that pass_3_typecheck   *)
(* keeps while it checks the procedures of one scope.  One ProcScope is    *)
(* made per scope (check.rs:569) and handed to typecheck_proc for every    *)
(* procedure of the scope.                                                 *)
(***************************************************************************)
MaxProcs == 2
MaxBlocks == 3
MaxLocals == 3

LocalNames == {"a", "b"}

\* the parameter lists of the procedures
ParamLists == {<<>>} \cup {<<n>> : n \in LocalNames}

\* LocalVar::Param / LocalVar::Local (check.rs:1044-1047); proc and block say
\* where the variable was declared (block 0 for a parameter)
LocalVar_Param(name, proc) ==
    [kind |-> "Param", name |-> name, proc |-> proc, block |-> 0]

LocalVar_Local(name, proc, block) ==
    [kind |-> "Local", name |-> name, proc |-> proc, block |-> block]

\* ProcScope::push_stack_frame (check.rs:1061-1063)
push_stack_frame(self) ==
    [self EXCEPT !.stack_frames = Append(@, [local_count |-> 0])]

\* ProcScope::push_local (check.rs:1065-1071)
push_local(self, local) ==
    [locals |-> Append(self.locals, local),
     stack_frames |->
        [i \in 1..Len(self.stack_frames) |->
            IF i = Len(self.stack_frames)
            THEN [local_count |-> self.stack_frames[i].local_count + 1]
            ELSE self.stack_frames[i]]]

RECURSIVE push_params(_, _, _, _)
\* the loop over proc_decl.params in typecheck_proc (check.rs:592-594)
push_params(self, params, proc, i) ==
    IF i > Len(params) THEN self
    ELSE push_params(push_local(self, LocalVar_Param(params[i], proc)),
                     params, proc, i + 1)

\* ProcScope::find_local (check.rs:1084-1096): the first local of that name
find_local(self, id) ==
    LET hits == {i \in 1..Len(self.locals) : self.locals[i].name = id}
    IN  IF hits = {} THEN None
        ELSE Some(self.locals[CHOOSE i \in hits : \A j \in hits : i <= j])

ProcScopeInit ==
    /\ InternIdle /\ HirIdle /\ CheckIdle /\ LowerIdle /\ MoreIdle

\* typecheck_proc (check.rs:581-598) up to the entry of the body block: a
\* procedure without a body or without a return type is skipped
typecheck_proc_enter ==
    /\ ps_walk.open = <<>>
    /\ ps_walk.proc < MaxProcs
    /\ \E params \in ParamLists : \E has_block \in BOOLEAN : \E has_return_ty \in BOOLEAN :
        /\ Len(proc_scope.locals) + Len(params) <= MaxLocals
        /\ IF has_block /\ has_return_ty
           THEN /\ ps_walk.blocks < MaxBlocks
                /\ proc_scope' = push_params(push_stack_frame(proc_scope), params,
                                             ps_walk.proc + 1, 1)
                /\ ps_walk' = [proc |-> ps_walk.proc + 1,
                            open |-> <<ps_walk.blocks + 1>>,
                            blocks |-> ps_walk.blocks + 1]
           ELSE /\ proc_scope' = proc_scope
                /\ ps_walk' = [ps_walk EXCEPT !.proc = @ + 1]
    /\ UNCHANGED notScope

\* typecheck_stmt, StmtKind::VarDecl (check.rs:618-633)
typecheck_stmt_var_decl ==
    /\ ps_walk.open # <<>>
    /\ Len(proc_scope.locals) < MaxLocals
    /\ \E name \in LocalNames :
        proc_scope' = push_local(proc_scope,
                        LocalVar_Local(name, ps_walk.proc, ps_walk.open[Len(ps_walk.open)]))
    /\ UNCHANGED ps_walk
    /\ UNCHANGED notScope

\* typecheck_expr, ExprKind::Block (check.rs:756-769): a nested block is entered
typecheck_block_enter ==
    /\ ps_walk.open # <<>>
    /\ ps_walk.blocks < MaxBlocks
    /\ ps_walk' = [ps_walk EXCEPT !.open = Append(@, ps_walk.blocks + 1),
                            !.blocks = @ + 1]
    /\ UNCHANGED proc_scope
    /\ UNCHANGED notScope

\* typecheck_expr, ExprKind::Block: the statements of the block are done; the
\* end of the body block is the end of typecheck_proc
typecheck_block_leave ==
    /\ ps_walk.open # <<>>
    /\ ps_walk' = [ps_walk EXCEPT !.open = SubSeq(@, 1, Len(@) - 1)]
    /\ UNCHANGED proc_scope
    /\ UNCHANGED notScope

ProcScopeNext ==
    \/ typecheck_proc_enter
    \/ typecheck_stmt_var_decl
    \/ typecheck_block_enter
    \/ typecheck_block_leave

SpecProcScope == ProcScopeInit /\ [][ProcScopeNext]_vars

\* the blocks that are open, as a set
OpenBlocks == {ps_walk.open[i] : i \in 1..Len(ps_walk.open)}

\* C22: while a procedure body is checked, a lookup finds only a parameter of
\* that procedure or a local declared in a block that is still open
C22_LookupFindsOnlyLiveLocals ==
    ps_walk.open # <<>> =>
        \A id \in LocalNames :
            LET found == find_local(proc_scope, id)
            IN  found # None =>
                    /\ found[1].proc = ps_walk.proc
                    /\ found[1].kind = "Local" => found[1].block \in OpenBlocks

(***************************************************************************)
(* Arena of src/src/mem/arena.rs: a bump allocator over blocks of          *)
(* layout.size() bytes.  Sizes are scaled down by a factor of 128, so that *)
(* a page has 32 bytes; the rounding of a request to 8 bytes is kept.      *)
(***************************************************************************)
\* Arena::PAGE_SIZE (arena.rs:12), 4096 in the source
PAGE_SIZE == 32

MaxAllocs == 3
MaxArenaLen == 4

\* size_of::<T>() of the element types allocated
ElemSizes == {1, 8, 12}

\* the block sizes asked of Arena::new
BlockSizes == {0, PAGE_SIZE, PAGE_SIZE + 8}

\* the bytes of one node of the list of blocks that ListBuilder::add takes from
\* the arena (arena.rs:50); mem/list.rs is not among the sources, so a list
\* that keeps its nodes elsewhere (0) and one that allocates one rounded cell
\* per node are both considered
NodeSizes == {0, 8}

\* one allocation: the block it was placed in and its byte range in that
\* block; fit says whether the request fitted in the rest of the block that
\* was current when it was made, before the number of blocks before it
Allocation(block, start, size, fit, before) ==
    [block |-> block, start |-> start, size |-> size, fit |-> fit, before |-> before]

\* Arena::alloc_block (arena.rs:46-52): a fresh block becomes the current one;
\* the node of the list of blocks is placed at its start
alloc_block(self) ==
    [self EXCEPT !.offset = self.node, !.blocks = @ + 1]

\* the rounded size of a request (arena.rs:37)
buffer_size(len, size_of) == ((len * size_of + 7) \div 8) * 8

\* Arena::alloc_buffer (arena.rs:36-44): the arena after the call and the
\* allocation returned
alloc_buffer(self, len, size_of) ==
    LET size == buffer_size(len, size_of)
        fit == ~(self.offset + size > self.size)
        cur == IF fit THEN self ELSE alloc_block(self)
    IN  [arena |-> [cur EXCEPT !.offset = @ + size],
         alloc |-> Allocation(cur.blocks, cur.offset, size, fit, self.blocks)]

ArenaInit ==
    /\ InternIdle /\ HirIdle /\ CheckIdle /\ LowerIdle /\ MoreIdle

\* Arena::new (arena.rs:14-26)
Arena_new ==
    /\ arena = None
    /\ \E block_size \in BlockSizes : \E node \in NodeSizes :
        arena' = Some(alloc_block(
                    [offset |-> 0,
                     size |-> IF block_size < PAGE_SIZE THEN PAGE_SIZE ELSE block_size,
                     blocks |-> 0,
                     node |-> node]))
    /\ UNCHANGED allocs
    /\ UNCHANGED notArena

\* Arena::alloc (arena.rs:28-30)
Arena_alloc ==
    /\ arena # None
    /\ Len(allocs) < MaxAllocs
    /\ \E size_of \in ElemSizes :
        LET r == alloc_buffer(arena[1], 1, size_of)
        IN  /\ arena' = Some(r.arena)
            /\ allocs' = Append(allocs, r.alloc)
    /\ UNCHANGED notArena

\* Arena::alloc_array (arena.rs:32-34)
Arena_alloc_array ==
    /\ arena # None
    /\ Len(allocs) < MaxAllocs
    /\ \E size_of \in ElemSizes : \E len \in 0..MaxArenaLen :
        LET r == alloc_buffer(arena[1], len, size_of)
        IN  /\ arena' = Some(r.arena)
            /\ allocs' = Append(allocs, r.alloc)
    /\ UNCHANGED notArena

ArenaNext ==
    \/ Arena_new
    \/ Arena_alloc
    \/ Arena_alloc_array

SpecArena == ArenaInit /\ [][ArenaNext]_vars

\* two allocations share a byte
Overlap(a, b) ==
    /\ a.block = b.block
    /\ a.start < b.start + b.size
    /\ b.start < a.start + a.size

\* C23: every allocation lies inside its block of layout.size() bytes behind
\* the node of the block list, overlaps no earlier allocation, and is placed in
\* a fresh block when it did not fit in the rest of the current one
C23_AllocationsInsideBlocksDisjoint ==
    \A i \in 1..Len(allocs) :
        /\ allocs[i].start >= arena[1].node
        /\ allocs[i].start + allocs[i].size <= arena[1].size
        /\ \A j \in 1..(i - 1) : ~Overlap(allocs[j], allocs[i])
        /\ ~allocs[i].fit => allocs[i].block = allocs[i].before + 1

(***************************************************************************)
(* grammar::module of src/rock_core/src/ast_parse/grammar.rs: the item     *)
(* loop of the parser.  Of the items, the import item without a symbol     *)
(* list is modelled; the tokens `#`, `as`, `.` and the other item keywords *)
(* are not among the tokens, so the branches that need them are not taken. *)
(***************************************************************************)
MaxTokens == 5

Tokens == {"import", "pub", "ident", "/", ";"}

\* the token lists handed to the parser: real tokens and the eof sentinel
TokenLists == {Append(ts, "eof") : ts \in SeqsUpTo(Tokens, MaxTokens)}

\* Parser::peek, bump, eat, expect (ast_parse/parser.rs, not among the
\* sources): the token at the cursor, the step over it, the step over it when
\* it is the token asked for
p_peek(p) == p.tokens[p.cursor + 1]

p_bump(p) == [p EXCEPT !.cursor = @ + 1]

p_eat(p, t) == IF p_peek(p) = t THEN p_bump(p) ELSE p

ParseOk(p) == [ok |-> TRUE, p |-> p, error |-> ""]

ParseErr(p, error) == [ok |-> FALSE, p |-> p, error |-> error]

p_expect(p, t) ==
    IF p_peek(p) = t THEN ParseOk(p_bump(p)) ELSE ParseErr(p, "expected token")

\* name (grammar.rs:299-305)
grammar_name(p) == p_expect(p, "ident")

\* import_item (grammar.rs:253-274): import first [/ second] ;
import_item(p) ==
    LET first == grammar_name(p_bump(p))
    IN  IF ~first.ok THEN first
        ELSE LET second == IF p_peek(first.p) = "/"
                           THEN grammar_name(p_bump(first.p))
                           ELSE first
             IN  IF ~second.ok THEN second
                 ELSE p_expect(second.p, ";")

\* vis (grammar.rs:283-289)
grammar_vis(p) == p_eat(p, "pub")

\* item (grammar.rs:70-83)
grammar_item(p) ==
    LET q == grammar_vis(p)
    IN  IF p_peek(q) = "import" THEN import_item(q)
        ELSE ParseErr(q, "expected item")

ParseInit ==
    /\ InternIdle /\ HirIdle /\ CheckIdle /\ LowerIdle /\ MoreIdle

\* module is called with the tokens of a file
module_begin ==
    /\ parser = None
    /\ \E tokens \in TokenLists :
        parser' = Some([tokens |-> tokens, cursor |-> 0, items |-> <<>>])
    /\ UNCHANGED module_result
    /\ UNCHANGED notParse

\* one iteration of the loop of module (grammar.rs:45-61): an item is added,
\* or module returns the error of the item at the current token, or at the
\* token before eof
module_item ==
    /\ parser # None
    /\ module_result = None
    /\ p_peek(parser[1]) # "eof"
    /\ LET r == grammar_item(parser[1])
       IN  IF r.ok
           THEN /\ parser' = Some([r.p EXCEPT !.items = Append(@, parser[1].cursor)])
                /\ UNCHANGED module_result
           ELSE LET q == IF p_peek(r.p) = "eof"
                         THEN [r.p EXCEPT !.cursor = @ - 1] ELSE r.p
                IN  /\ parser' = Some(q)
                    /\ module_result' =
                         Some([ok |-> FALSE,
                               errors |-> <<[message |-> r.error, range |-> q.cursor]>>])
    /\ UNCHANGED notParse

\* the loop of module ends at eof (grammar.rs:62-67)
module_end ==
    /\ parser # None
    /\ module_result = None
    /\ p_peek(parser[1]) = "eof"
    /\ module_result' = Some([ok |-> TRUE, items |-> parser[1].items])
    /\ UNCHANGED parser
    /\ UNCHANGED notParse

ParseNext ==
    \/ module_begin
    \/ module_item
    \/ module_end

SpecParse == ParseInit /\ [][ParseNext]_vars

\* the synchronising tokens
SyncTokens == {";", "}", "eof"}

\* the cursor behind the first synchronising token at or after cursor c
AfterSync(tokens, c) ==
    1 + CHOOSE i \in c..(Len(tokens) - 1) :
            /\ tokens[i + 1] \in SyncTokens
            /\ \A j \in c..(i - 1) : tokens[j + 1] \notin SyncTokens

\* C24: when an item fails to parse, one diagnostic is recorded at the current
\* token (not at eof), and a well-formed item behind the next synchronising
\* token is parsed all the same
C24_OneDiagnosticThenResume ==
    (module_result # None /\ ~module_result[1].ok) =>
        LET tokens == parser[1].tokens
            at == module_result[1].errors[1].range
            resume == AfterSync(tokens, at)
        IN  /\ Len(module_result[1].errors) = 1
            /\ tokens[at + 1] # "eof"
            /\ (/\ resume < Len(tokens)
                /\ tokens[resume + 1] # "eof"
                /\ grammar_item([parser[1] EXCEPT !.cursor = resume]).ok)
                    => resume \in {parser[1].items[i] : i \in 1..Len(parser[1].items)}

(***************************************************************************)
(* path_resolve_target_scope of pass_5.rs over the scope tables of         *)
(* HirData: the tables are chosen at the start and the function is called  *)
(* once on them.                                                           *)
(***************************************************************************)
MaxPathLen == 3

\* the entries a symbol table may hold for a name
PathSymbols ==
    {Defined("Mod", 0), Defined("Mod", 1), Defined("Proc", 0), Imported("Mod", 1)}

SymbolTables == UNION {[S -> PathSymbols] : S \in SUBSET Names}

\* ast::Path: its kind and its names
AstPath(kind, names) == [kind |-> kind, names |-> names]

AstPaths ==
    {AstPath(kind, names) :
        kind \in PathKinds, names \in SeqsUpTo(Names, MaxPathLen) \ {<<>>}}

\* the root scope and one module scope below it, two mod declarations of the
\* root whose target files may be missing, and one procedure
PathResolveInit ==
    /\ InternIdle /\ CheckIdle /\ LowerIdle /\ MoreIdle
    /\ \E s0 \in SymbolTables : \E s1 \in SymbolTables :
        scopes = <<[parent |-> None, symbols |-> s0],
                   [parent |-> Some(0), symbols |-> s1]>>
    /\ \E t0 \in {None, Some(1)} : \E t1 \in {None, Some(0)} :
        mods = <<[origin_id |-> 0, name |-> 0, target |-> t0],
                 [origin_id |-> 0, name |-> 1, target |-> t1]>>
    /\ ast_items = [k \in ItemKinds |-> IF k = "Proc" THEN <<0>> ELSE <<>>]
    /\ hir_items = [k \in ItemKinds |->
                        IF k = "Proc" THEN <<[origin_id |-> 0, name |-> 0]>> ELSE <<>>]
    /\ hir_scopes = <<0, 1>>
    /\ hirCalls = 0

\* what path_resolve_target_scope leaves behind: the Option it returns and
\* the diagnostics it has handed to hb.error
PathResolved(ret, diagnostics) == [ret |-> ret, errors |-> diagnostics]

\* HirData::scope_parent (hir_build.rs:330-332)
scope_parent(id) == scopes[id + 1].parent

\* &path.names[mod_count..] with the target (pass_5.rs:1233), the variant
\* that hands back the whole path first
path_names_whole(names, mod_count) == names

path_names_from(names, mod_count) == SubSeq(names, mod_count + 1, Len(names))

RECURSIVE path_resolve_names(_, _, _, _, _)
\* the loop over path.names (pass_5.rs:1200-1231), from name i on
path_resolve_names(origin_id, path, target_id, mod_count, i) ==
    IF i > Len(path.names)
    THEN PathResolved(Some(<<target_id, path_names_from(path.names, mod_count)>>), <<>>)
    ELSE LET found == symbol_from_scope(origin_id, target_id, path.kind, path.names[i])
         IN  IF found = None
             THEN PathResolved(None,
                    <<ErrorComp_error("name is not found", Src("pass_5", origin_id, <<i>>))>>)
             ELSE IF found[1].kind = "Mod"
             THEN LET data == mods[found[1].id + 1]
                  IN  IF data.target # None
                      THEN path_resolve_names(origin_id, path, data.target[1],
                                              mod_count + 1, i + 1)
                      ELSE PathResolved(None,
                             <<ErrorComp_error("module does not have its associated file",
                                               Src("pass_5", origin_id, <<i>>))>>)
             ELSE PathResolved(Some(<<target_id, path_names_from(path.names, mod_count)>>),
                               <<>>)

\* path_resolve_target_scope (pass_5.rs:1179-1234)
path_resolve_target_scope(origin_id, path) ==
    IF path.kind = "Super" /\ scope_parent(origin_id) = None
    THEN PathResolved(None,
            <<ErrorComp_error("parent module super cannot be used from the root module",
                              Src("pass_5", origin_id, <<0>>))>>)
    ELSE LET target_id == IF path.kind = "None" THEN origin_id
                          ELSE IF path.kind = "Super" THEN scope_parent(origin_id)[1]
                          ELSE 0
         IN  path_resolve_names(origin_id, path, target_id, 0, 1)

call_path_resolve_target_scope ==
    /\ fn_args = None
    /\ \E origin_id \in 0..(Len(scopes) - 1) : \E path \in AstPaths :
        /\ fn_args' = Some(<<origin_id, path>>)
        /\ fn_result' = Some(path_resolve_target_scope(origin_id, path))
    /\ UNCHANGED notFn

PathResolveNext ==
    \/ call_path_resolve_target_scope

SpecPathResolve == PathResolveInit /\ [][PathResolveNext]_vars

\* name n, looked up in scope t for the path of the call, names a module whose
\* target file is the scope u
NamesModule(origin_id, kind, t, n, u) ==
    LET found == symbol_from_scope(origin_id, t, kind, n)
    IN  /\ found # None
        /\ found[1].kind = "Mod"
        /\ mods[found[1].id + 1].target = Some(u)

\* the runs of leading segments that name modules with a target file: the
\* scopes t[0] .. t[m] passed through, from the scope the path starts in
ModuleRuns(origin_id, path, start) ==
    UNION {{t \in [0..m -> 0..(Len(scopes) - 1)] :
                /\ t[0] = start
                /\ \A i \in 1..m :
                    NamesModule(origin_id, path.kind, t[i - 1], path.names[i], t[i])}
           : m \in 0..Len(path.names)}

\* the longest of them
LongestRun(origin_id, path, start) ==
    CHOOSE t \in ModuleRuns(origin_id, path, start) :
        \A u \in ModuleRuns(origin_id, path, start) :
            Cardinality(DOMAIN u) <= Cardinality(DOMAIN t)

\* C25: the scope behind the longest leading run of module segments with a
\* target file is returned with exactly the remaining segments; when the
\* segment behind the run names nothing or names a module without a target
\* file, or super is used from the root, nothing is returned and exactly one
\* diagnostic is recorded
C25_LongestModuleRunAndSuffix ==
    fn_args # None =>
        LET origin_id == fn_args[1][1]
            path == fn_args[1][2]
            k == Len(path.names)
            got == fn_result[1]
            failed == got.ret = None /\ Len(got.errors) = 1
        IN  IF path.kind = "Super" /\ scopes[origin_id + 1].parent = None
            THEN failed
            ELSE LET start == IF path.kind = "None" THEN origin_id
                              ELSE IF path.kind = "Super"
                              THEN scopes[origin_id + 1].parent[1]
                              ELSE 0
                     t == LongestRun(origin_id, path, start)
                     m == Cardinality(DOMAIN t) - 1
                     rest == IF m < k
                             THEN symbol_from_scope(origin_id, t[m], path.kind,
                                                    path.names[m + 1])
                             ELSE None
                 IN  IF m < k /\ (rest = None \/ rest[1].kind = "Mod")
                     THEN failed
                     ELSE /\ got.ret = Some(<<t[m], SubSeq(path.names, m + 1, k)>>)
                          /\ m + Len(got.ret[1][2]) = k

\* a call that passed through a module and handed back a remaining segment
C25_Witness ==
    /\ fn_args # None
    /\ fn_result[1].ret # None
    /\ fn_result[1].ret[1][1] # fn_args[1][1]
    /\ Len(fn_result[1].ret[1][2]) >= 1
    /\ Len(fn_result[1].ret[1][2]) < Len(fn_args[1][2].names)

(***************************************************************************)
(* Lexer of src/src/ast/lexer2.rs.  The characters are one of each class   *)
(* the lexer tells apart: whitespace, a digit, the dot, two letters, two   *)
(* characters with a glue token and one without.                           *)
(***************************************************************************)
MaxInput == 4

InputChars == {" ", "1", ".", "i", "f", "+", "=", "@"}

Inputs == SeqsUpTo(InputChars, MaxInput)

is_ascii_whitespace(c) == c = " "

is_ascii_digit(c) == c = "1"

is_alphabetic(c) == c \in {"i", "f"}

\* Token::keyword_from_str, Token::glue, glue2, glue3 (ast/token2.rs, not
\* among the sources): the keyword table and the glue tables of the operators
\* that the characters above can spell
keyword_from_str(slice) == IF slice = <<"i", "f">> THEN Some("KwIf") ELSE None

glue(c) ==
    IF c = "+" THEN Some("Plus")
    ELSE IF c = "=" THEN Some("Assign")
    ELSE IF c = "." THEN Some("Dot")
    ELSE None

glue2(c, token) ==
    IF c = "=" /\ token = "Plus" THEN Some("PlusEq")
    ELSE IF c = "=" /\ token = "Assign" THEN Some("IsEq")
    ELSE IF c = "." /\ token = "Dot" THEN Some("DotDot")
    ELSE None

glue3(c, token) ==
    IF c = "=" /\ token = "DotDot" THEN Some("DotDotEq") ELSE None

\* Lexer::new (lexer2.rs:13-20) with the TokenList::new of lex (24)
Lexer_new(str) ==
    [str |-> str, chars |-> str, span_start |-> 0, span_end |-> 0, tokens |-> <<>>]

\* Lexer::peek (lexer2.rs:36-38)
lex_peek(self) == IF self.chars = <<>> THEN None ELSE Some(self.chars[1])

\* Lexer::eat (lexer2.rs:40-43); every character here is one byte long
lex_eat(self) ==
    [self EXCEPT !.span_end = @ + 1, !.chars = Tail(@)]

\* Lexer::span (lexer2.rs:45-47)
lex_span(self) == [start |-> self.span_start, end |-> self.span_end]

\* what lex_token returns, and the lexer behind the token
Lexed(self, token) == [self |-> self, token |-> token, span |-> lex_span(self)]

RECURSIVE skip_whitespace(_)
\* Lexer::skip_whitespace (lexer2.rs:49-57)
skip_whitespace(self) ==
    IF lex_peek(self) # None /\ is_ascii_whitespace(lex_peek(self)[1])
    THEN skip_whitespace(lex_eat(self))
    ELSE self

RECURSIVE lex_number_loop(_, _)
\* the loop of lex_number (lexer2.rs:73-88)
lex_number_loop(self, is_float) ==
    IF lex_peek(self) # None /\ is_ascii_digit(lex_peek(self)[1])
    THEN lex_number_loop(lex_eat(self), is_float)
    ELSE IF lex_peek(self) = Some(".") /\ ~is_float
    THEN lex_number_loop(lex_eat(self), TRUE)
    ELSE Lexed(self, IF is_float THEN "FloatLit" ELSE "IntLit")

\* Lexer::lex_number (lexer2.rs:70-89)
lex_number(self) == lex_number_loop(lex_eat(self), FALSE)

RECURSIVE lex_ident_loop(_)
\* the loop of lex_ident (lexer2.rs:94-100)
lex_ident_loop(self) ==
    IF /\ lex_peek(self) # None
       /\ LET c == lex_peek(self)[1]
          IN  c = "_" \/ is_ascii_digit(c) \/ is_alphabetic(c)
    THEN lex_ident_loop(lex_eat(self))
    ELSE self

\* Lexer::lex_ident (lexer2.rs:91-109)
lex_ident(self) ==
    LET after == lex_ident_loop(lex_eat(self))
        slice == SubSeq(after.str, after.span_start + 1, after.span_end)
    IN  IF keyword_from_str(slice) # None
        THEN Lexed(after, keyword_from_str(slice)[1])
        ELSE Lexed(after, "Ident")

\* Lexer::lex_symbol (lexer2.rs:111-140)
lex_symbol(self, fc) ==
    LET s1 == lex_eat(self)
    IN  IF glue(fc) = None THEN Lexed(s1, "Error")
        ELSE IF lex_peek(s1) = None \/ glue2(lex_peek(s1)[1], glue(fc)[1]) = None
        THEN Lexed(s1, glue(fc)[1])
        ELSE LET token2 == glue2(lex_peek(s1)[1], glue(fc)[1])[1]
                 s2 == lex_eat(s1)
             IN  IF lex_peek(s2) = None \/ glue3(lex_peek(s2)[1], token2) = None
                 THEN Lexed(s2, token2)
                 ELSE Lexed(lex_eat(s2), glue3(lex_peek(s2)[1], token2)[1])

\* Lexer::lex_token (lexer2.rs:59-68)
lex_token(self, fc) ==
    LET s0 == [self EXCEPT !.span_start = self.span_end]
    IN  IF is_ascii_digit(fc) THEN lex_number(s0)
        ELSE IF fc = "_" \/ is_alphabetic(fc) THEN lex_ident(s0)
        ELSE lex_symbol(s0, fc)

LexInit ==
    /\ InternIdle /\ HirIdle /\ CheckIdle /\ LowerIdle /\ MoreIdle

\* Lexer::new(str) and the entry of lex (lexer2.rs:22-24)
lex_begin ==
    /\ lexer = None
    /\ \E str \in Inputs : lexer' = Some(Lexer_new(str))
    /\ UNCHANGED lex_result
    /\ UNCHANGED notLex

\* one iteration of the loop of lex (lexer2.rs:26-32)
lex_iterate ==
    /\ lexer # None
    /\ lex_result = None
    /\ lex_peek(lexer[1]) # None
    /\ LET s0 == skip_whitespace(lexer[1])
       IN  IF lex_peek(s0) # None
           THEN LET r == lex_token(s0, lex_peek(s0)[1])
                IN  lexer' = Some([r.self EXCEPT !.tokens =
                                      Append(@, [token |-> r.token, span |-> r.span])])
           ELSE lexer' = Some(s0)
    /\ UNCHANGED lex_result
    /\ UNCHANGED notLex

\* lex returns the tokens (lexer2.rs:33)
lex_return ==
    /\ lexer # None
    /\ lex_result = None
    /\ lex_peek(lexer[1]) = None
    /\ lex_result' = Some(lexer[1].tokens)
    /\ UNCHANGED lexer
    /\ UNCHANGED notLex

LexNext ==
    \/ lex_begin
    \/ lex_iterate
    \/ lex_return

SpecLex == LexInit /\ [][LexNext]_vars

\* C26: the token list that lex returns ends with an EOF token and holds no
\* other EOF token
C26_ListEndsWithOneEof ==
    lex_result # None =>
        LET tokens == lex_result[1]
        IN  /\ Len(tokens) >= 1
            /\ tokens[Len(tokens)].token = "Eof"
            /\ \A i \in 1..(Len(tokens) - 1) : tokens[i].token # "Eof"

(***************************************************************************)
(* The name lists of pass_3.rs: process_proc_data, process_enum_data,      *)
(* process_union_data and process_struct_data called on one item.          *)
(***************************************************************************)
MaxNames == 4

ListKinds == {"proc", "enum", "union", "struct"}

NameLists == SeqsUpTo({"a", "b", "c"}, MaxNames)

NameListInit ==
    /\ InternIdle /\ HirIdle /\ CheckIdle /\ LowerIdle /\ MoreIdle

call_process_names ==
    /\ fn_args = None
    /\ \E kind \in ListKinds : \E names \in NameLists :
        /\ fn_args' = Some(<<kind, names>>)
        /\ fn_result' = Some(process_names(<<>>, kind, 1, names, <<>>, 1))
    /\ UNCHANGED notFn

NameListNext ==
    \/ call_process_names

SpecNameList == NameListInit /\ [][NameListNext]_vars

\* the place of the first occurrence of the name at place p
FirstOccurrence(names, p) ==
    CHOOSE i \in 1 .. p : names[i] = names[p] /\ \A j \in 1 .. (i - 1) : names[j] # names[p]

\* C27: a list of k names of which d are distinct gets k - d diagnostics
\* "defined multiple times", one at every place that repeats a name, each with
\* a note at the first occurrence of the name; the lowered list is the first
\* occurrences, in source order
C27_DuplicatesReportedFirstOccurrencesKept ==
    fn_args # None =>
        LET kind == fn_args[1][1]
            names == fn_args[1][2]
            k == Len(names)
            d == Cardinality({names[i] : i \in 1 .. k})
            errs == fn_result[1].errors
            unique == fn_result[1].unique
            repeats == {p \in 1 .. k : FirstOccurrence(names, p) # p}
        IN  /\ Len(errs) = k - d
            /\ \A e \in 1 .. Len(errs) :
                /\ errs[e].message = Pass3Message(kind)
                /\ errs[e].src.path[1] \in repeats
                /\ errs[e].info.src.path[1] = FirstOccurrence(names, errs[e].src.path[1])
            /\ {errs[e].src.path[1] : e \in 1 .. Len(errs)} = repeats
            /\ Len(unique) = d
            /\ \A i \in 1 .. Len(unique) :
                /\ unique[i].name = names[unique[i].range]
                /\ FirstOccurrence(names, unique[i].range) = unique[i].range
                /\ \A j \in 1 .. (i - 1) : unique[j].range < unique[i].range

\* a list where a name comes three times and another name once behind it
C27_Witness ==
    /\ fn_args # None
    /\ fn_args[1][2] = <<"a", "a", "b", "a">>
    /\ Len(fn_result[1].errors) = 2
    /\ Len(fn_result[1].unique) = 2

(***************************************************************************)
(* Module discovery (pass_0_populate_scopes) and the passes behind it when *)
(* the root file is claimed or missing.                                    *)
(***************************************************************************)
\* pass_0 has returned
DiscoveryDone == pc \notin {"idle", "pass_0", "pass_0_tasks"}

\* C29: after module discovery no source file, the root file included, is the
\* module of two scopes
C29_FileOfAtMostOneScope ==
    DiscoveryDone =>
        \A i \in 1 .. Len(ctx_scopes) : \A j \in 1 .. Len(ctx_scopes) :
            ctx_scopes[i].module = ctx_scopes[j].module => i = j

\* the tasks with a parent that the worklist has received for the file: the
\* scopes made from them and the tasks still on the stack
ChildTasksOf(file) ==
    Cardinality({i \in 1 .. Len(ctx_scopes) :
                    ctx_scopes[i].module = file /\ ctx_scopes[i].parent_id # None})
    + Cardinality({i \in 1 .. Len(tasks) :
                    tasks[i].module = file /\ tasks[i].parent # None})

\* C30: the worklist receives, besides the root task, at most one task per
\* source file; every scope but the root has a parent with a smaller ScopeID;
\* and module discovery comes to its end
C30_DiscoveryTerminates ==
    /\ [](\A file \in DOMAIN ast : ChildTasksOf(file) <= 1)
    /\ [](\A i \in 1 .. Len(ctx_scopes) :
            IF i = 1 THEN ctx_scopes[i].parent_id = None
            ELSE /\ ctx_scopes[i].parent_id # None
                 /\ ctx_scopes[i].parent_id[1] < i - 1)
    /\ <>DiscoveryDone

\* modules a and b declare each other: each has its scope, and the second
\* declaration of a was refused
C30_Witness ==
    /\ DiscoveryDone
    /\ Len(ctx_scopes) = 3
    /\ \E i \in 2 .. 3 : \E j \in 2 .. 3 :
        /\ ctx_scopes[i].module = Path(<<>>, "a")
        /\ ctx_scopes[j].module = Path(<<>>, "b")
        /\ ctx_scopes[j].parent_id = Some(i - 1)
        /\ "a" \in DOMAIN ctx_scopes[j].symbols
    /\ \E r \in 1 .. Len(reports) : reports[r].message = "module has been taken"

\* the reports of the missing root
MissingRootReports ==
    {r \in 1 .. Len(reports) : reports[r].message = "missing root main or lib module"}

\* C28: when the root file is missing, the missing root is reported once and
\* no later pass reads scope 0 or another scope that does not exist
C28_MissingRootNoScopeRead ==
    (pc \notin {"idle", "pass_0"} /\ root_path \notin DOMAIN ast) =>
        /\ Cardinality(MissingRootReports) = 1
        /\ pc # "panic"

====
